---- MODULE Spec2Model ----
(***************************************************************************)
(* The scabbard two-phase-commit event log: add_consensus_event            *)
(* (libscabbard, store/scabbard_store/diesel/operations/                   *)
(* add_consensus_event.rs) for the SQLite and the PostgreSQL connection,   *)
(* run by concurrent connections against one database.                     *)
(***************************************************************************)
EXTENDS Integers, Sequences, FiniteSets, TLC

\* ------------------------------------------------------------------ bounds

\* Calls issued in all, by whichever connection.
MaxCalls == 2

\* Calls each of the two threads of the concurrent workload issues.
MaxAppends == 2

\* Connections calling add_consensus_event concurrently.
Threads == {1, 2}

\* ------------------------------------------------------------ option values

None == <<>>

Some(x) == <<x>>

\* --------------------------------------------------------------- the epoch

\* A 64-bit word is four 16-bit limbs, least significant first.  An i64 is
\* the same word read in two's complement: limb 4 holds the sign bit.
SignLimb == 32768

U64(low, high) == <<low, 0, 0, high>>

I64Cast(epoch) == [ok |-> TRUE, value |-> epoch]

\* i64::try_from(epoch): Ok(the same value) when epoch <= i64::MAX, else Err.
I64TryFrom(epoch) ==
    IF epoch[4] < SignLimb
    THEN [ok |-> TRUE, value |-> epoch]
    ELSE [ok |-> FALSE, value |-> epoch]

\* The epochs callers present: 7, 8 and 2^63 (the least u64 above i64::MAX).
Epoch7 == U64(7, 0)

Epoch8 == U64(8, 0)

EpochOver == U64(0, SignLimb)

\* i64::MAX = 2^63 - 1 and u64::MAX = 2^64 - 1.
EpochI64Max == <<65535, 65535, 65535, SignLimb - 1>>

EpochU64Max == <<65535, 65535, 65535, 65535>>

\* ------------------------------------------------------- events and messages

ServiceA == "svc-A::group"

ServiceB == "svc-B::group"

Values == {<<1, 2>>}

\* A message: its variant, its first field (which every match arm of the
\* writer ignores: `DecisionRequest(_)`, `VoteResponse(_, true)`, ...) and its
\* vote or value.
NoMessage == [variant |-> "-", first |-> Epoch7, vote |-> FALSE, value |-> None]

DecisionRequest ==
    [variant |-> "DecisionRequest", first |-> Epoch7, vote |-> FALSE, value |-> None]

VoteResponse(b) ==
    [variant |-> "VoteResponse", first |-> Epoch7, vote |-> b, value |-> None]

Commit == [variant |-> "Commit", first |-> Epoch7, vote |-> FALSE, value |-> None]

Abort == [variant |-> "Abort", first |-> Epoch7, vote |-> FALSE, value |-> None]

VoteRequest(v) ==
    [variant |-> "VoteRequest", first |-> Epoch7, vote |-> FALSE, value |-> Some(v)]

\* The same message with another first field.
WithFirst(message, first) == [message EXCEPT !.first = first]

Scabbard2pcMessage ==
    {DecisionRequest, Commit, Abort}
        \cup {VoteResponse(b) : b \in BOOLEAN}
        \cup {VoteRequest(v) : v \in Values}

Alarm ==
    [variant |-> "Alarm", value |-> None, vote |-> FALSE, receiver |-> "",
     message |-> NoMessage]

Start(v) ==
    [variant |-> "Start", value |-> Some(v), vote |-> FALSE, receiver |-> "",
     message |-> NoMessage]

Vote(b) ==
    [variant |-> "Vote", value |-> None, vote |-> b, receiver |-> "",
     message |-> NoMessage]

Deliver(r, m) ==
    [variant |-> "Deliver", value |-> None, vote |-> FALSE, receiver |-> r,
     message |-> m]

Scabbard2pcEvent ==
    {Alarm}
        \cup {Start(v) : v \in Values}
        \cup {Vote(b) : b \in BOOLEAN}
        \cup {Deliver(ServiceB, m) : m \in Scabbard2pcMessage}

EventTypeVariant(event) == event.variant

\* String::from(&event): the event's discriminator.
EventTypeString(event) ==
    CASE event.variant = "Alarm" -> "ALARM"
      [] event.variant = "Start" -> "START"
      [] event.variant = "Vote" -> "VOTE"
      [] event.variant = "Deliver" -> "DELIVER"

\* String::from(&message): the message's discriminator.
MessageTypeString(message) ==
    CASE message.variant = "DecisionRequest" -> "DECISION_REQUEST"
      [] message.variant = "VoteResponse" -> "VOTE_RESPONSE"
      [] message.variant = "VoteRequest" -> "VOTE_REQUEST"
      [] message.variant = "Commit" -> "COMMIT"
      [] message.variant = "Abort" -> "ABORT"

VoteStringLower(vote) == IF vote THEN "true" ELSE "false"

\* `match vote { true => "TRUE", false => "FALSE" }`
VoteString(vote) == IF vote THEN "TRUE" ELSE "FALSE"

\* ---------------------------------------------------------------- the state

VARIABLES
    backend,                            \* "sqlite" or "postgres"
    consensus_2pc_coordinator_context,  \* committed rows, by (service_id, epoch)
    consensus_2pc_participant_context,
    two_pc_consensus_event,             \* committed header rows
    two_pc_consensus_deliver_event,     \* committed detail rows
    two_pc_consensus_start_event,
    two_pc_consensus_vote_event,
    id_seq,          \* postgres: the last value of the header table's id sequence
    pc,              \* per connection: "idle", "read", "header", "detail"
    arg,             \* per connection: the (last) call's service_id, epoch, event
    loc,             \* per connection: the closure's locals
    writes,          \* per connection: the rows its open transaction has written
    result,          \* per connection: what its last call returned
    calls,           \* per connection: the calls issued so far
    oks,             \* per connection: the calls that returned Ok so far
    commit_log,      \* the ids of the committed header rows, in commit order
    context_result,  \* the last put_context: its arguments and what it returned
    mark_result,     \* the last mark_executed: its arguments and what it returned
    builder,         \* a CircuitNodeBuilder: node_id, endpoints, public_key
    given,           \* what with_node_id and with_endpoints were last given
    node,            \* what the last build returned
    node_id_file,    \* the content of <state_dir>/node_id, None when there is none
    find_result,     \* the last find_node_id: its config's node_id, what it returned
    actions,         \* a SubcommandActions: the action registered under each name
    with_given,      \* what with_command was last given
    run_result,      \* the last SubcommandActions::run: its arguments, what ran,
                     \* what it returned
    keys_result,     \* the last load_signer_keys: the directory entries in the
                     \* order they were read, the peering key, what it returned
    both             \* a sqlite and a postgres database given the same calls
                     \* one after the other: their tables, what the last call
                     \* returned from each, the number of calls so far

tables ==
    <<two_pc_consensus_event, two_pc_consensus_deliver_event,
      two_pc_consensus_start_event, two_pc_consensus_vote_event>>

contexts == <<consensus_2pc_coordinator_context, consensus_2pc_participant_context>>

\* What the store's other operations keep, which an append leaves alone.
\* The state of the programs beside the store.
circuit_node == <<builder, given, node>>

splinterd == <<node_id_file, find_result>>

cli == <<actions, with_given, run_result>>

\* The state of the programs beside the store, the builder and splinterd's
\* node id.
beside == <<cli, keys_result, both>>

outside == <<circuit_node, splinterd, beside>>

other_ops == <<context_result, mark_result, outside>>

\* The state of the store.
store ==
    <<backend, contexts, tables, id_seq, pc, arg, loc, writes, result, calls,
      oks, commit_log, context_result, mark_result>>

vars ==
    <<backend, contexts, tables, id_seq, pc, arg, loc, writes, result, calls,
      oks, commit_log, other_ops>>

NoWrites == [event |-> {}, deliver |-> {}, start |-> {}, vote |-> {}]

NoLocals ==
    [epoch |-> U64(0, 0), coordinator_context |-> FALSE,
     participant_context |-> FALSE, position |-> 0, event_id |-> 0, snapshot |-> 0]

NoArg == [service_id |-> "", epoch |-> U64(0, 0), event |-> Alarm]

NoResult == [kind |-> "None", event_id |-> None]

Ok(event_id) == [kind |-> "Ok", event_id |-> Some(event_id)]

Err(kind) == [kind |-> kind, event_id |-> None]

DieselErrorAsInvalidState == Err("InvalidState")

\* The closure panics: the call returns nothing and the transaction, never
\* committed, is rolled back with its connection.
Panicked == [kind |-> "Panic", event_id |-> None]

\* `?` on a diesel error: From<diesel::result::Error> for ScabbardStoreError.
FromDieselError == Err("Internal")

\* ------------------------------------------------------------- transactions

\* What of connection t's open transaction the other connections can read:
\* nothing, the statements run inside conn.transaction.
DirtyRead(t) == writes[t]

UncommittedVisible(t) == NoWrites

\* The header rows connection t reads: the committed rows, its own writes and
\* what the other connections let it see.
VisibleEvents(t) ==
    two_pc_consensus_event \cup writes[t].event
        \cup UNION {UncommittedVisible(u).event : u \in Threads \ {t}}

\* The rows the end of a transaction leaves in a table: the closure returned
\* Ok and the transaction commits, or Err and it rolls back.
ReplaceOnCommit(committed, written, ok) ==
    IF ok /\ written # {} THEN written ELSE committed

CommitOnErr(committed, written, ok) == committed \cup written

TransactionEnd(committed, written, ok) ==
    IF ok THEN committed \cup written ELSE committed

\* ------------------------------------------------------------------- reads

Max(S) == CHOOSE x \in S : \A y \in S : y <= x

ContextExists(table, service_id, epoch) ==
    \E row \in table : row.epoch = epoch /\ row.service_id = service_id

\* .order(position.desc()).select(position).first().optional()
FirstPositionDesc(events, service_id, epoch) ==
    LET ps == {row.position : row \in
                  {r \in events : r.service_id = service_id /\ r.epoch = epoch}}
    IN  IF ps = {} THEN None ELSE Some(Max(ps))

UnwrapOr(opt, default) == IF opt = None THEN default ELSE opt[1]

NextPositionAnyPair(events, service_id, epoch) ==
    IF events = {} THEN 1 ELSE Max({row.position : row \in events}) + 1

NextPositionAnyEpoch(events, service_id, epoch) ==
    LET ps == {row.position : row \in {r \in events : r.service_id = service_id}}
    IN  IF ps = {} THEN 1 ELSE Max(ps) + 1

NextPositionDefaultOne(events, service_id, epoch) ==
    UnwrapOr(FirstPositionDesc(events, service_id, epoch), 1) + 1

\* i32::MAX and i32::MIN.
I32Max == 2147483647

I32Min == -I32Max - 1

\* `+` on i32 overflows: a build with overflow checks panics here.  (The
\* sum is not formed where it would leave the 32 bits.)
AddOverflows(x, y) ==
    \/ y > 0 /\ x > I32Max - y
    \/ y < 0 /\ x < I32Min - y

\* `+` on i32 in a build without overflow checks: two's complement wrapping.
WrappingAdd(x, y) ==
    IF ~AddOverflows(x, y) THEN x + y
    ELSE IF y > 0 THEN I32Min + ((y - 1) - (I32Max - x))
    ELSE I32Max - ((-y - 1) - (x - I32Min))

NextPosition(events, service_id, epoch) ==
    WrappingAdd(UnwrapOr(FirstPositionDesc(events, service_id, epoch), 0), 1)

\* The `+ 1` of the position overflows.
PositionOverflows(events, service_id, epoch) ==
    AddOverflows(UnwrapOr(FirstPositionDesc(events, service_id, epoch), 0), 1)

FirstIdAsc(events) == CHOOSE x \in {row.id : row \in events} :
                            \A row \in events : x <= row.id

\* .order(id.desc()).select(id).first()
FirstIdDesc(events) == Max({row.id : row \in events})

\* ------------------------------------------------------- the role branches

NoRows == [ok |-> TRUE, deliver |-> {}, start |-> {}, vote |-> {}]

Rejected == [NoRows EXCEPT !.ok = FALSE]

DeliverRowToSelf(event_id, service_id, epoch, receiver, message, vote_response, vote_request) ==
    [event_id |-> event_id, service_id |-> service_id, epoch |-> epoch,
     receiver_service_id |-> service_id,
     message_type |-> MessageTypeString(message),
     vote_response |-> vote_response, vote_request |-> vote_request]

DeliverRow(event_id, service_id, epoch, receiver, message, vote_response, vote_request) ==
    [event_id |-> event_id, service_id |-> service_id, epoch |-> epoch,
     receiver_service_id |-> receiver,
     message_type |-> MessageTypeString(message),
     vote_response |-> vote_response, vote_request |-> vote_request]

StartRow(event_id, service_id, epoch, value) ==
    [event_id |-> event_id, service_id |-> service_id, epoch |-> epoch,
     value |-> value]

VoteRowEpochZero(event_id, service_id, epoch, vote) ==
    [event_id |-> event_id, service_id |-> service_id, epoch |-> U64(0, 0),
     vote |-> VoteString(vote)]

VoteRow(event_id, service_id, epoch, vote) ==
    [event_id |-> event_id, service_id |-> service_id, epoch |-> epoch,
     vote |-> VoteString(vote)]

CoordinatorMessageVoteAlways(message) ==
    [ok |-> message.variant \in {"DecisionRequest", "VoteResponse"},
     vote_response |-> Some(VoteString(message.vote))]

CoordinatorMessageParticipantArms(message) ==
    [ok |-> message.variant # "VoteResponse", vote_response |-> None]

\* `let (message_type, vote_response) = match message` of the coordinator
\* branch: the vote_response column, or ok = FALSE for the catch-all arm.
CoordinatorMessageNoCatchAll(message) ==
    [ok |-> TRUE,
     vote_response |-> IF message.variant = "VoteResponse"
                       THEN Some(VoteString(message.vote)) ELSE None]

CoordinatorMessage(message) ==
    CASE message.variant = "DecisionRequest" ->
            [ok |-> TRUE, vote_response |-> None]
      [] message.variant = "VoteResponse" ->
            [ok |-> TRUE, vote_response |-> Some(VoteString(message.vote))]
      [] OTHER -> [ok |-> FALSE, vote_response |-> None]

ParticipantMessageNoValue(message) ==
    [ok |-> message.variant # "VoteResponse", vote_request |-> None]

\* `let (message_type, vote_request) = match &message` of the participant
\* branch: the vote_request column, or ok = FALSE for the catch-all arm.
ParticipantMessageNoCatchAll(message) ==
    [ok |-> TRUE, vote_request |-> message.value]

ParticipantMessage(message) ==
    CASE message.variant \in {"DecisionRequest", "Commit", "Abort"} ->
            [ok |-> TRUE, vote_request |-> None]
      [] message.variant = "VoteRequest" ->
            [ok |-> TRUE, vote_request |-> Some(message.value[1])]
      [] OTHER -> [ok |-> FALSE, vote_request |-> None]

\* `match event` under a coordinator context: the detail rows to insert, or
\* ok = FALSE for the InvalidState of the message's catch-all arm.
CoordinatorBranch(event_id, service_id, epoch, event) ==
    CASE event.variant = "Alarm" -> NoRows
      [] event.variant = "Deliver" ->
            LET m == CoordinatorMessage(event.message) IN
            IF m.ok
            THEN [NoRows EXCEPT !.deliver =
                    {DeliverRow(event_id, service_id, epoch, event.receiver,
                                event.message, m.vote_response, None)}]
            ELSE Rejected
      [] event.variant = "Start" ->
            [NoRows EXCEPT !.start =
                {StartRow(event_id, service_id, epoch, event.value[1])}]
      [] event.variant = "Vote" ->
            [NoRows EXCEPT !.vote =
                {VoteRow(event_id, service_id, epoch, event.vote)}]

ParticipantAsCoordinator(event_id, service_id, epoch, event) ==
    CoordinatorBranch(event_id, service_id, epoch, event)

\* `match event` under a participant context; the catch-all event arm
\* (Start) is an InvalidState too.
ParticipantBranch(event_id, service_id, epoch, event) ==
    CASE event.variant = "Alarm" -> NoRows
      [] event.variant = "Deliver" ->
            LET m == ParticipantMessage(event.message) IN
            IF m.ok
            THEN [NoRows EXCEPT !.deliver =
                    {DeliverRow(event_id, service_id, epoch, event.receiver,
                                event.message, None, m.vote_request)}]
            ELSE Rejected
      [] event.variant = "Vote" ->
            [NoRows EXCEPT !.vote =
                {VoteRow(event_id, service_id, epoch, event.vote)}]
      [] OTHER -> Rejected

\* InsertableTwoPcConsensusEventModel, with the id the table gives the row.
EventRow(id, service_id, epoch, position, event) ==
    [id |-> id, service_id |-> service_id, epoch |-> epoch,
     executed_at |-> None, position |-> position,
     event_type |-> EventTypeString(event)]

\* ------------------------------------------------------------- the backend

\* The id a new header row gets: sqlite numbers the rows of the table,
\* postgres draws from a sequence that a rolled back insert has moved too.
NewEventId(t) ==
    IF backend = "sqlite"
    THEN IF VisibleEvents(t) = {} THEN 1 ELSE FirstIdDesc(VisibleEvents(t)) + 1
    ELSE id_seq + 1

SamePositionAnyPair(r1, r2) == r1.position = r2.position

SamePosition(r1, r2) ==
    /\ r1.service_id = r2.service_id
    /\ r1.epoch = r2.epoch
    /\ r1.position = r2.position

NoUniqueIndex(t, row) == FALSE

\* The unique index on (service_id, epoch, position) refuses the row.
UniqueViolation(t, row) == \E r \in VisibleEvents(t) : SamePosition(r, row)

NoWait(t, row) == FALSE

\* postgres: another open transaction has written a row with the same key;
\* the insert waits for that transaction to end.
WaitsForInsert(t, row) ==
    /\ backend = "postgres"
    /\ \E u \in Threads \ {t} : \E r \in writes[u].event : SamePosition(r, row)

\* sqlite: one writer at a time, and a transaction whose snapshot is older
\* than the last commit cannot start writing (SQLITE_BUSY).
DatabaseLocked(t) ==
    /\ backend = "sqlite"
    /\ \/ \E u \in Threads \ {t} : pc[u] \in {"header", "detail"}
       \/ loc[t].snapshot # Len(commit_log)

\* ------------------------------------- one call after the other, by backend

\* The most calls given to the two databases.
MaxBothCalls == 3

Backends == {"sqlite", "postgres"}

\* A database before the first call: the context rows of Init, no events.
DatabaseNew ==
    [coordinator_context |->
        {[service_id |-> ServiceA, epoch |-> Epoch7],
         [service_id |-> ServiceA, epoch |-> Epoch8]},
     participant_context |->
        {[service_id |-> ServiceB, epoch |-> Epoch7],
         [service_id |-> ServiceA, epoch |-> Epoch8]},
     event |-> {}, deliver |-> {}, start |-> {}, vote |-> {}, id_seq |-> 0]

BothNew ==
    [db |-> [b \in Backends |-> DatabaseNew],
     result |-> [b \in Backends |-> NoResult],
     calls |-> 0]

\* ------------------------------------------------ cli: SubcommandActions

\* The names a subcommand is registered under or given on the command line.
\* clap gives the empty name when no subcommand was given.
CommandNames == {"", "list", "show"}

\* The actions: what tells one from another, and what its run returns.
CliActions ==
    {[action |-> "first", returns |-> "Ok"],
     [action |-> "second", returns |-> "ActionError"],
     [action |-> "third", returns |-> "Ok"]}

\* An ArgMatches: the subcommand that was given, if any, with its matches,
\* the arguments the action is run with.
ArgMatches ==
    {[subcommand |-> None]}
        \cup {[subcommand |-> Some([name |-> name, matches |-> matches])] :
                    name \in CommandNames \ {""},
                    matches \in {"matches-1", "matches-2"}}

\* SubcommandActions::new(): an empty map.
SubcommandActionsNew == [name \in CommandNames |-> None]

NoRun == [arg_matches |-> None, ran |-> <<>>, result |-> "None"]

HashMapInsertIfVacant(map, key, value) ==
    IF map[key] = None THEN [map EXCEPT ![key] = Some(value)] ELSE map

\* HashMap::insert: the value under the key is the one given.
HashMapInsert(map, key, value) == [map EXCEPT ![key] = Some(value)]

\* ArgMatches::subcommand(): the name and the matches of the subcommand, or
\* ("", None).
Subcommand(args) ==
    IF args.subcommand = None
    THEN [name |-> "", matches |-> None]
    ELSE [name |-> args.subcommand[1].name,
          matches |-> Some(args.subcommand[1].matches)]

\* --------------------------------------------- splinterd: load_signer_keys

\* The most entries the keys directory has.
MaxEntries == 3

\* The files of <config_dir>/keys: a file name is its stem and its extension.
KeyFiles == [stem : {"splinterd", "alice", "bob"}, extension : {"priv", "pub"}]

\* What read_dir yields: the entries of the directory, each once, in the
\* order of the file system.
RECURSIVE Listings(_)
Listings(n) ==
    IF n = 0
    THEN {<<>>}
    ELSE LET shorter == Listings(n - 1) IN
         shorter \cup
            UNION {{Append(paths, file) :
                        file \in KeyFiles \ {paths[i] : i \in 1..Len(paths)}} :
                   paths \in {l \in shorter : Len(l) = n - 1}}

\* Secp256k1Context::new().new_signer(private_key): the signer of the key
\* in the file.
NewSigner(path) == [signer |-> path.stem]

\* PeerAuthorizationToken::from_public_key(signing_key.public_key())
FromPublicKey(signing_key) == [public_key |-> signing_key.signer]

VecInsertBack(vec, element) == Append(vec, element)

\* Vec::insert(0, element)
VecInsertFront(vec, element) == <<element>> \o vec

NoKeys ==
    [paths |-> <<>>, peering_key |-> "", kind |-> "None", signing_keys |-> <<>>,
     token |-> None, warned |-> None]

\* One turn of the loop, for a key file that loads.
LoadPath(self, path, peering_key) ==
    IF path.extension = "priv"
    THEN LET signing_key == NewSigner(path) IN
         IF path.stem = peering_key
         THEN [self EXCEPT
                    !.peer_token = Some(FromPublicKey(signing_key)),
                    !.signing_keys = VecInsertFront(@, signing_key)]
         ELSE [self EXCEPT !.signing_keys = Append(@, signing_key)]
    ELSE [self EXCEPT !.last_known_key = path.stem]

\* The loop over the first n entries, from the locals as they are before it.
RECURSIVE LoadPaths(_, _, _)
LoadPaths(paths, n, peering_key) ==
    IF n = 0
    THEN [peer_token |-> None, signing_keys |-> <<>>, last_known_key |-> ""]
    ELSE LoadPath(LoadPaths(paths, n - 1, peering_key), paths[n], peering_key)

\* What follows the loop.
LoadSignerKeys(paths, peering_key) ==
    LET loaded == LoadPaths(paths, Len(paths), peering_key)
        signing_keys == loaded.signing_keys
        failed ==
            [paths |-> paths, peering_key |-> peering_key,
             kind |-> "InternalError", signing_keys |-> <<>>, token |-> None,
             warned |-> None]
        ok ==
            [paths |-> paths, peering_key |-> peering_key, kind |-> "Ok",
             signing_keys |-> signing_keys, token |-> None, warned |-> None]
    IN
    IF signing_keys = <<>>
    THEN failed
    ELSE IF loaded.peer_token # None
    THEN [ok EXCEPT !.token = loaded.peer_token]
    ELSE IF Len(signing_keys) = 1
    THEN [ok EXCEPT !.token = Some(FromPublicKey(signing_keys[1])),
                    !.warned = Some(loaded.last_known_key)]
    ELSE failed

\* ----------------------------------------------------------------- actions

ContextRow(service_id, epoch) == [service_id |-> service_id, epoch |-> epoch]

NoContextResult == [service_id |-> "", epoch |-> U64(0, 0), role |-> "", kind |-> "None"]

\* CircuitNodeBuilder::new(): CircuitNodeBuilder::default().
CircuitNodeBuilderNew == [node_id |-> None, endpoints |-> None, public_key |-> None]

NoNode == [kind |-> "None"]

NoFind == [config |-> None, kind |-> "None", node_id |-> <<>>]

NoMarkResult == [event_id |-> 0, timestamp |-> 0, kind |-> "None"]

\* No connection has called yet, and nothing outside the event log has
\* happened.
InitCalls ==
    /\ backend \in {"sqlite", "postgres"}
    /\ pc = [t \in Threads |-> "idle"]
    /\ arg = [t \in Threads |-> NoArg]
    /\ loc = [t \in Threads |-> NoLocals]
    /\ writes = [t \in Threads |-> NoWrites]
    /\ result = [t \in Threads |-> NoResult]
    /\ calls = [t \in Threads |-> 0]
    /\ oks = [t \in Threads |-> 0]
    /\ context_result = NoContextResult
    /\ mark_result = NoMarkResult
    /\ builder = CircuitNodeBuilderNew
    /\ given = CircuitNodeBuilderNew
    /\ node = NoNode
    /\ node_id_file = None
    /\ find_result = NoFind
    /\ actions = SubcommandActionsNew
    /\ with_given = None
    /\ run_result = NoRun
    /\ keys_result = NoKeys
    /\ both = BothNew

\* The event tables are empty and no connection has called yet.
InitLog ==
    /\ InitCalls
    /\ two_pc_consensus_event = {}
    /\ two_pc_consensus_deliver_event = {}
    /\ two_pc_consensus_start_event = {}
    /\ two_pc_consensus_vote_event = {}
    /\ id_seq = 0
    /\ commit_log = <<>>

\* The context tables are written by other operations of the store and only
\* read here: svc-A is coordinator of epoch 7, svc-B participant of epoch 7,
\* svc-A has both rows for epoch 8 and svc-B has none for epoch 8.
Init ==
    /\ InitLog
    /\ consensus_2pc_coordinator_context =
            {ContextRow(ServiceA, Epoch7), ContextRow(ServiceA, Epoch8)}
    /\ consensus_2pc_participant_context =
            {ContextRow(ServiceB, Epoch7), ContextRow(ServiceA, Epoch8)}

\* The closure of connection t returns res: the transaction commits on Ok and
\* rolls back on Err, and the call is over.
Finish(t, res) ==
    LET ok == res.kind = "Ok"
        events == TransactionEnd(two_pc_consensus_event, writes[t].event, ok)
        new == events \ two_pc_consensus_event
    IN  /\ two_pc_consensus_event' = events
        /\ two_pc_consensus_deliver_event' =
                TransactionEnd(two_pc_consensus_deliver_event, writes[t].deliver, ok)
        /\ two_pc_consensus_start_event' =
                TransactionEnd(two_pc_consensus_start_event, writes[t].start, ok)
        /\ two_pc_consensus_vote_event' =
                TransactionEnd(two_pc_consensus_vote_event, writes[t].vote, ok)
        /\ commit_log' =
                IF new = {} THEN commit_log
                ELSE Append(commit_log, CHOOSE row \in new : TRUE)
        /\ pc' = [pc EXCEPT ![t] = "idle"]
        /\ result' = [result EXCEPT ![t] = res]
        /\ oks' = [oks EXCEPT ![t] = IF ok THEN @ + 1 ELSE @]
        /\ loc' = [loc EXCEPT ![t] = NoLocals]
        /\ writes' = [writes EXCEPT ![t] = NoWrites]

\* add_consensus_event is called: the transaction begins, the epoch is
\* converted, and the two context rows and the greatest position are read.
\* When the `+ 1` of the position overflows, the build decides: with overflow
\* checks the closure panics, without them the position wraps.
Call(t, service_id, epoch, event) ==
    /\ pc[t] = "idle"
    /\ calls' = [calls EXCEPT ![t] = @ + 1]
    /\ arg' = [arg EXCEPT ![t] =
                  [service_id |-> service_id, epoch |-> epoch, event |-> event]]
    /\ LET converted == I64TryFrom(epoch) IN
       IF ~converted.ok
       THEN Finish(t, Err("Internal"))
       ELSE \/ /\ pc' = [pc EXCEPT ![t] = "read"]
               /\ loc' = [loc EXCEPT ![t] =
                     [epoch |-> converted.value,
                      coordinator_context |->
                           ContextExists(consensus_2pc_coordinator_context,
                                         service_id, converted.value),
                      participant_context |->
                           ContextExists(consensus_2pc_participant_context,
                                         service_id, converted.value),
                      position |->
                           NextPosition(VisibleEvents(t), service_id, converted.value),
                      event_id |-> 0,
                      snapshot |-> Len(commit_log)]]
               /\ result' = [result EXCEPT ![t] = NoResult]
               /\ UNCHANGED <<tables, writes, oks, commit_log>>
            \/ /\ PositionOverflows(VisibleEvents(t), service_id, converted.value)
               /\ Finish(t, Panicked)
    /\ UNCHANGED <<backend, contexts, id_seq, other_ops>>

RoleNoBothCheck(coordinator_context, participant_context) ==
    IF coordinator_context THEN "coordinator"
    ELSE IF participant_context THEN "participant" ELSE "none"

RoleElseParticipant(coordinator_context, participant_context) ==
    IF coordinator_context
    THEN IF participant_context THEN "both" ELSE "coordinator"
    ELSE "participant"

\* Which branch of `if coordinator_context.is_some() ... else if
\* participant_context.is_some() ... else` the call takes.
Role(coordinator_context, participant_context) ==
    IF coordinator_context
    THEN IF participant_context THEN "both" ELSE "coordinator"
    ELSE IF participant_context THEN "participant" ELSE "none"

\* The contexts are checked and the header row is inserted; its id is read.
InsertEvent(t) ==
    /\ pc[t] = "read"
    /\ LET l == loc[t]
           a == arg[t]
           id == NewEventId(t)
           row == EventRow(id, a.service_id, l.epoch, l.position, a.event)
       IN  IF Role(l.coordinator_context, l.participant_context) \in {"both", "none"}
           THEN Finish(t, Err("InvalidState")) /\ UNCHANGED id_seq
           ELSE IF DatabaseLocked(t)
           THEN Finish(t, FromDieselError) /\ UNCHANGED id_seq
           ELSE /\ ~WaitsForInsert(t, row)
                /\ id_seq' = IF backend = "postgres" THEN id ELSE id_seq
                /\ IF UniqueViolation(t, row)
                   THEN Finish(t, FromDieselError)
                   ELSE /\ pc' = [pc EXCEPT ![t] = "header"]
                        /\ writes' = [writes EXCEPT ![t].event = {row}]
                        /\ loc' = [loc EXCEPT ![t].event_id =
                                IF backend = "sqlite"
                                THEN FirstIdDesc(VisibleEvents(t) \cup {row})
                                ELSE id]
                        /\ UNCHANGED <<tables, result, oks, commit_log>>
    /\ UNCHANGED <<backend, contexts, arg, calls, other_ops>>

\* `match event`: the variant is checked and its detail row inserted.
InsertDetail(t) ==
    /\ pc[t] = "header"
    /\ LET l == loc[t]
           a == arg[t]
           rows == IF Role(l.coordinator_context, l.participant_context) = "coordinator"
                   THEN CoordinatorBranch(l.event_id, a.service_id, l.epoch, a.event)
                   ELSE ParticipantBranch(l.event_id, a.service_id, l.epoch, a.event)
       IN  IF ~rows.ok
           THEN Finish(t, Err("InvalidState"))
           ELSE /\ pc' = [pc EXCEPT ![t] = "detail"]
                /\ writes' = [writes EXCEPT ![t] =
                        [event |-> @.event, deliver |-> rows.deliver,
                         start |-> rows.start, vote |-> rows.vote]]
                /\ UNCHANGED <<tables, result, loc, oks, commit_log>>
    /\ UNCHANGED <<backend, contexts, id_seq, arg, calls, other_ops>>

\* The closure returns Ok(event_id) and the transaction commits.
CommitTransaction(t) ==
    /\ pc[t] = "detail"
    /\ Finish(t, Ok(loc[t].event_id))
    /\ UNCHANGED <<backend, contexts, id_seq, arg, calls, other_ops>>

\* A statement of the open transaction fails in the backend (I/O error, lost
\* connection): `?` returns the error and the transaction rolls back.
BackendError(t) ==
    /\ pc[t] \in {"read", "header", "detail"}
    /\ Finish(t, FromDieselError)
    /\ UNCHANGED <<backend, contexts, id_seq, arg, calls, other_ops>>

ServiceIds == {ServiceA, ServiceB}

\* The epochs the tables can hold (the callers' epochs that fit an i64).
StoredEpochs == {Epoch7, Epoch8}

\* The (service_id, epoch) pairs callers present: the four pairs of the
\* context tables' Init and one epoch that does not fit an i64.
CallKeys ==
    {<<ServiceA, Epoch7>>, <<ServiceB, Epoch7>>, <<ServiceA, Epoch8>>,
     <<ServiceB, Epoch8>>, <<ServiceA, EpochOver>>}

CallsIssued == calls[1] + calls[2]

Next ==
    \/ \E t \in Threads, key \in CallKeys, event \in Scabbard2pcEvent :
            CallsIssued < MaxCalls /\ Call(t, key[1], key[2], event)
    \/ \E t \in Threads : InsertEvent(t)
    \/ \E t \in Threads : InsertDetail(t)
    \/ \E t \in Threads : CommitTransaction(t)

Spec == Init /\ [][Next]_vars

\* The same, with a backend whose statements may fail.
NextFault == Next \/ \E t \in Threads : BackendError(t)

SpecFault == Init /\ [][NextFault]_vars

\* Two threads, each appending MaxAppends events that are legal where they
\* are appended: to the coordinator's or to the participant's log.
AppendEvents == {Alarm, Vote(TRUE)}

NextAppend ==
    \/ \E t \in Threads, service_id \in ServiceIds, event \in AppendEvents :
            calls[t] < MaxAppends /\ Call(t, service_id, Epoch7, event)
    \/ \E t \in Threads : InsertEvent(t)
    \/ \E t \in Threads : InsertDetail(t)
    \/ \E t \in Threads : CommitTransaction(t)

SpecAppend == Init /\ [][NextAppend]_vars

\* The same two threads, all their appends going to the coordinator's log of
\* (svc-A, 7).
NextSameKey ==
    \/ \E t \in Threads, event \in AppendEvents \cup {Start(<<1, 2>>)} :
            calls[t] < MaxAppends /\ Call(t, ServiceA, Epoch7, event)
    \/ \E t \in Threads : InsertEvent(t)
    \/ \E t \in Threads : InsertDetail(t)
    \/ \E t \in Threads : CommitTransaction(t)

SpecSameKey == Init /\ [][NextSameKey]_vars

\* Two threads appending to different pairs: thread 1 to the coordinator's
\* log of (svc-A, 7), thread 2 to the participant's log of (svc-B, 7), which
\* refuses a Start.
ServiceOf(t) == IF t = 1 THEN ServiceA ELSE ServiceB

NextDisjoint ==
    \/ \E t \in Threads, event \in AppendEvents \cup {Start(<<1, 2>>)} :
            calls[t] < MaxAppends /\ Call(t, ServiceOf(t), Epoch7, event)
    \/ \E t \in Threads : InsertEvent(t)
    \/ \E t \in Threads : InsertDetail(t)
    \/ \E t \in Threads : CommitTransaction(t)

SpecDisjoint == Init /\ [][NextDisjoint]_vars

\* Appends to logs that are full or nearly so.  The coordinator's log of
\* (svc-A, 7) holds 2^31 - 1 events and the participant's log of (svc-B, 7)
\* one less; of each log the last rows are in the model (the position query
\* orders by position and takes the first row, and the rows below it enter
\* nothing else).
FullLogRows ==
    <<[EventRow(1, ServiceA, Epoch7, I32Max - 1, Alarm) EXCEPT !.executed_at = Some(10)],
      EventRow(2, ServiceB, Epoch7, I32Max - 1, Alarm),
      EventRow(3, ServiceA, Epoch7, I32Max, Alarm)>>

InitOverflow ==
    /\ InitCalls
    /\ two_pc_consensus_event = {FullLogRows[i] : i \in 1..3}
    /\ two_pc_consensus_deliver_event = {}
    /\ two_pc_consensus_start_event = {}
    /\ two_pc_consensus_vote_event = {}
    /\ id_seq = IF backend = "postgres" THEN 3 ELSE 0
    /\ commit_log = FullLogRows
    /\ consensus_2pc_coordinator_context = {ContextRow(ServiceA, Epoch7)}
    /\ consensus_2pc_participant_context = {ContextRow(ServiceB, Epoch7)}

NextOverflow ==
    \/ \E t \in Threads, service_id \in ServiceIds, event \in AppendEvents :
            CallsIssued < MaxCalls /\ Call(t, service_id, Epoch7, event)
    \/ \E t \in Threads : InsertEvent(t)
    \/ \E t \in Threads : InsertDetail(t)
    \/ \E t \in Threads : CommitTransaction(t)

SpecOverflow == InitOverflow /\ [][NextOverflow]_vars

\* Appends at the ends of the epoch's range: svc-A is coordinator of epoch 7
\* and of epoch i64::MAX, svc-B participant of epoch i64::MAX.
InitEpoch ==
    /\ InitLog
    /\ consensus_2pc_coordinator_context =
            {ContextRow(ServiceA, Epoch7), ContextRow(ServiceA, EpochI64Max)}
    /\ consensus_2pc_participant_context = {ContextRow(ServiceB, EpochI64Max)}

BoundaryEpochs == {Epoch7, EpochI64Max, EpochOver, EpochU64Max}

NextEpoch ==
    \/ \E t \in Threads, service_id \in ServiceIds, epoch \in BoundaryEpochs,
           event \in AppendEvents \cup {Start(<<1, 2>>)} :
            CallsIssued < MaxCalls /\ Call(t, service_id, epoch, event)
    \/ \E t \in Threads : InsertEvent(t)
    \/ \E t \in Threads : InsertDetail(t)
    \/ \E t \in Threads : CommitTransaction(t)

SpecEpoch == InitEpoch /\ [][NextEpoch]_vars

\* ------------------------------------------------------- the context store

Roles == {"coordinator", "participant"}

\* put_context(service_id, epoch, Context): creates the role binding of the
\* pair.  The source checks role exclusivity only where the contexts are
\* read: a binding of the opposite role does not stop the insert.  Placing a
\* role the pair already has changes nothing; what it returns is left to the
\* implementation.
PutContext(service_id, epoch, role) ==
    LET own == IF role = "coordinator"
               THEN consensus_2pc_coordinator_context
               ELSE consensus_2pc_participant_context
    IN  /\ IF ContextExists(own, service_id, epoch)
           THEN /\ \E kind \in {"Ok", "InvalidState"} :
                    context_result' = [service_id |-> service_id, epoch |-> epoch,
                                       role |-> role, kind |-> kind]
                /\ UNCHANGED contexts
           ELSE /\ context_result' = [service_id |-> service_id, epoch |-> epoch,
                                      role |-> role, kind |-> "Ok"]
                /\ IF role = "coordinator"
                   THEN /\ consensus_2pc_coordinator_context' =
                                consensus_2pc_coordinator_context
                                    \cup {ContextRow(service_id, epoch)}
                        /\ UNCHANGED consensus_2pc_participant_context
                   ELSE /\ consensus_2pc_participant_context' =
                                consensus_2pc_participant_context
                                    \cup {ContextRow(service_id, epoch)}
                        /\ UNCHANGED consensus_2pc_coordinator_context
        /\ UNCHANGED <<backend, tables, id_seq, pc, arg, loc, writes, result,
                       calls, oks, commit_log, mark_result, outside>>

\* The store before any context was created.
InitContext ==
    /\ InitLog
    /\ consensus_2pc_coordinator_context = {}
    /\ consensus_2pc_participant_context = {}

\* The engine creates the contexts of epoch 7 while two connections append
\* to the logs of that epoch.
NextContext ==
    \/ \E service_id \in ServiceIds, role \in Roles :
            PutContext(service_id, Epoch7, role)
    \/ \E t \in Threads, service_id \in ServiceIds, event \in AppendEvents :
            CallsIssued < MaxCalls /\ Call(t, service_id, Epoch7, event)
    \/ \E t \in Threads : InsertEvent(t)
    \/ \E t \in Threads : InsertDetail(t)
    \/ \E t \in Threads : CommitTransaction(t)

SpecContext == InitContext /\ [][NextContext]_vars

\* ------------------------------------------------- the replay/read surface

\* e1 < e2, as 64-bit values.
EpochLess(e1, e2) ==
    \E i \in 1..4 : e1[i] < e2[i] /\ \A j \in (i + 1)..4 : e1[j] = e2[j]

\* Header row r1 comes before r2: epoch ascending, then position ascending.
RowBefore(r1, r2) ==
    \/ EpochLess(r1.epoch, r2.epoch)
    \/ r1.epoch = r2.epoch /\ r1.position < r2.position

\* The rows of a set as a sequence, least row first.
RECURSIVE OrderRows(_)
OrderRows(rows) ==
    IF rows = {} THEN <<>>
    ELSE LET least == CHOOSE r \in rows : \A q \in rows : ~RowBefore(q, r)
         IN  <<least>> \o OrderRows(rows \ {least})

Filters == {"all", "pending-only", "executed-only"}

Selected(row, filter) ==
    CASE filter = "pending-only" -> row.executed_at = None
      [] filter = "executed-only" -> row.executed_at # None
      [] OTHER -> TRUE

\* The vote a "TRUE" / "FALSE" column stands for.
ParseVote(string) == string = "TRUE"

\* The message a deliver row stands for; the row does not hold the message's
\* first field, which is read as the row's epoch.
ReadMessage(d) ==
    WithFirst(
        CASE d.message_type = "DECISION_REQUEST" -> DecisionRequest
          [] d.message_type = "VOTE_RESPONSE" ->
                VoteResponse(ParseVote(UnwrapOr(d.vote_response, "")))
          [] d.message_type = "VOTE_REQUEST" ->
                VoteRequest(UnwrapOr(d.vote_request, <<>>))
          [] d.message_type = "COMMIT" -> Commit
          [] d.message_type = "ABORT" -> Abort
          [] OTHER -> NoMessage,
        d.epoch)

\* The event a header row and its joined detail row stand for (an Alarm when
\* the detail row is missing).
ReadEvent(row) ==
    LET joined(table) == {d \in table : d.event_id = row.id}
        deliver == joined(two_pc_consensus_deliver_event)
        start == joined(two_pc_consensus_start_event)
        vote == joined(two_pc_consensus_vote_event)
    IN  CASE row.event_type = "DELIVER" /\ deliver # {} ->
                LET d == CHOOSE d \in deliver : TRUE
                IN  Deliver(d.receiver_service_id, ReadMessage(d))
          [] row.event_type = "START" /\ start # {} ->
                Start((CHOOSE d \in start : TRUE).value)
          [] row.event_type = "VOTE" /\ vote # {} ->
                Vote(ParseVote((CHOOSE d \in vote : TRUE).vote))
          [] OTHER -> Alarm

\* list_events(service_id, epoch, filter): the committed header rows of the
\* pair that pass the filter, in order.
ListRows(service_id, epoch, filter) ==
    OrderRows({row \in two_pc_consensus_event :
                    /\ row.service_id = service_id
                    /\ row.epoch = epoch
                    /\ Selected(row, filter)})

\* The events of a sequence of header rows.
RECURSIVE ReadEvents(_)
ReadEvents(rows) ==
    IF rows = <<>> THEN <<>>
    ELSE <<ReadEvent(Head(rows))>> \o ReadEvents(Tail(rows))

\* The events list_events yields.
ListEvents(service_id, epoch, filter) ==
    ReadEvents(ListRows(service_id, epoch, filter))

Timestamps == {10, 20}

\* The ids mark_executed is called with: those of the events there can be,
\* and one more.
MarkIds == 1..(MaxCalls + 1)

MarkExecutedOverwrite(event_id, timestamp) ==
    /\ \A t \in Threads : pc[t] = "idle"
    /\ mark_result' = [event_id |-> event_id, timestamp |-> timestamp, kind |-> "Ok"]
    /\ two_pc_consensus_event' =
            {IF row.id = event_id
             THEN [row EXCEPT !.executed_at = Some(timestamp)] ELSE row :
                row \in two_pc_consensus_event}
    /\ UNCHANGED <<backend, contexts, two_pc_consensus_deliver_event,
                   two_pc_consensus_start_event, two_pc_consensus_vote_event,
                   id_seq, pc, arg, loc, writes, result, calls, oks, commit_log,
                   context_result, outside>>

\* mark_executed(event_id, timestamp): sets executed_at of the event when it
\* is NULL; a second attempt is an InvalidState, and so is an id no event
\* has.  The engine marks an event between appends.
MarkExecuted(event_id, timestamp) ==
    LET found == {row \in two_pc_consensus_event : row.id = event_id}
    IN  IF \E row \in found : row.executed_at = None
        THEN /\ \A t \in Threads : pc[t] = "idle"
             /\ mark_result' = [event_id |-> event_id, timestamp |-> timestamp,
                                 kind |-> "Ok"]
             /\ two_pc_consensus_event' =
                    (two_pc_consensus_event \ found) \cup
                        {[row EXCEPT !.executed_at = Some(timestamp)] : row \in found}
             /\ UNCHANGED <<backend, contexts, two_pc_consensus_deliver_event,
                            two_pc_consensus_start_event,
                            two_pc_consensus_vote_event, id_seq, pc, arg, loc,
                            writes, result, calls, oks, commit_log, context_result,
                            outside>>
        ELSE /\ \A t \in Threads : pc[t] = "idle"
             /\ mark_result' = [event_id |-> event_id, timestamp |-> timestamp,
                                 kind |-> "InvalidState"]
             /\ UNCHANGED <<backend, contexts, tables, id_seq, pc, arg, loc,
                            writes, result, calls, oks, commit_log,
                            context_result, outside>>

\* Two connections append to the logs of epoch 7 and the engine marks events
\* executed.
NextReplay ==
    \/ \E t \in Threads, service_id \in ServiceIds, event \in AppendEvents :
            CallsIssued < MaxCalls /\ Call(t, service_id, Epoch7, event)
    \/ \E t \in Threads : InsertEvent(t)
    \/ \E t \in Threads : InsertDetail(t)
    \/ \E t \in Threads : CommitTransaction(t)
    \/ \E event_id \in MarkIds, timestamp \in Timestamps :
            MarkExecuted(event_id, timestamp)

SpecReplay == Init /\ [][NextReplay]_vars

\* Appends of every variant and message a role accepts: to the
\* coordinator's log of (svc-A, 7) and to the participant's log of
\* (svc-B, 7), among them messages whose first field is not the epoch of the
\* call, and an empty value.
RoundTripEvents(service_id) ==
    IF service_id = ServiceA
    THEN {Alarm, Start(<<1, 2>>), Start(<<>>), Vote(TRUE),
          Deliver(ServiceB, WithFirst(DecisionRequest, Epoch8)),
          Deliver(ServiceB, VoteResponse(TRUE)),
          Deliver(ServiceB, WithFirst(VoteResponse(FALSE), Epoch8))}
    ELSE {Vote(FALSE), Deliver(ServiceA, Commit), Deliver(ServiceA, Abort),
          Deliver(ServiceB, DecisionRequest),
          Deliver(ServiceA, WithFirst(VoteRequest(<<1, 2>>), Epoch8))}

NextRoundTrip ==
    \/ \E t \in Threads, service_id \in ServiceIds :
            \E event \in RoundTripEvents(service_id) :
                CallsIssued < MaxCalls /\ Call(t, service_id, Epoch7, event)
    \/ \E t \in Threads : InsertEvent(t)
    \/ \E t \in Threads : InsertDetail(t)
    \/ \E t \in Threads : CommitTransaction(t)

SpecRoundTrip == Init /\ [][NextRoundTrip]_vars

\* ------------------------------------------------------ CircuitNodeBuilder

NodeIds == {"", "node-1", "node-2"}

EndpointLists == {<<>>, <<"tcp://a:8044">>, <<"tcp://a:8044", "tcp://b:8044">>}

PublicKeys == {<<1, 2>>}

\* InvalidStateError::with_message(message); the messages are written here
\* without the backquotes around the field's name.
InvalidStateError(message) == [kind |-> "InvalidStateError", message |-> message]

CircuitNode(id, endpoints, public_key) ==
    [kind |-> "Ok", id |-> id, endpoints |-> endpoints, public_key |-> public_key]

\* self.node_id = Some(node_id.into())
with_node_id(node_id) ==
    /\ builder' = [builder EXCEPT !.node_id = Some(node_id)]
    /\ given' = [given EXCEPT !.node_id = Some(node_id)]
    /\ UNCHANGED <<node, store, splinterd, beside>>

\* self.endpoints = Some(endpoints.into())
with_endpoints(endpoints) ==
    /\ builder' = [builder EXCEPT !.endpoints = Some(endpoints)]
    /\ given' = [given EXCEPT !.endpoints = Some(endpoints)]
    /\ UNCHANGED <<node, store, splinterd, beside>>

\* self.public_key = Some(public_key.into())
with_public_key(public_key) ==
    /\ builder' = [builder EXCEPT !.public_key = Some(public_key)]
    /\ given' = [given EXCEPT !.public_key = Some(public_key)]
    /\ UNCHANGED <<node, store, splinterd, beside>>

BuildEndpointsFirst(self) ==
    IF self.endpoints = None
    THEN InvalidStateError("unable to build, missing field: endpoints")
    ELSE IF self.node_id = None
    THEN InvalidStateError("unable to build, missing field: node_id")
    ELSE CircuitNode(self.node_id[1], self.endpoints[1], self.public_key)

\* CircuitNodeBuilder::build(self): node_id is unwrapped first, then
\* endpoints.
Build(self) ==
    IF self.node_id = None
    THEN InvalidStateError("unable to build, missing field: node_id")
    ELSE IF self.endpoints = None
    THEN InvalidStateError("unable to build, missing field: endpoints")
    ELSE CircuitNode(self.node_id[1], self.endpoints[1], self.public_key)

\* build is called on (a clone of) the builder.
build ==
    /\ node' = Build(builder)
    /\ UNCHANGED <<builder, given, store, splinterd, beside>>

\* A new builder is created.
new ==
    /\ builder' = CircuitNodeBuilderNew
    /\ given' = CircuitNodeBuilderNew
    /\ UNCHANGED <<node, store, splinterd, beside>>

NextBuilder ==
    \/ new
    \/ \E node_id \in NodeIds : with_node_id(node_id)
    \/ \E endpoints \in EndpointLists : with_endpoints(endpoints)
    \/ \E public_key \in PublicKeys : with_public_key(public_key)
    \/ build

SpecBuilder == Init /\ [][NextBuilder]_vars

\* ------------------------------------------------- splinterd: find_node_id

\* A string is the sequence of its lines' texts and newlines: "n1\n" is
\* <<"n1", "\n">>.
Newline == "\n"

\* The node ids a config carries, the last one with a newline at its end.
ConfigNodeIds == {<<"n1">>, <<"n2">>, <<"n1", Newline>>}

\* format!("n{}", thread_rng().gen::<u16>()): the least and the greatest.
GeneratedNodeIds == {<<"n0">>, <<"n65535">>}

\* The node_id files found in a state directory: with and without the
\* newline at the end, with two, and empty.
SavedFiles ==
    {<<"n1", Newline>>, <<"n1">>, <<"n1", Newline, Newline>>, <<>>, <<Newline>>}

TrimNewlines(string) ==
    SelectSeq(string, LAMBDA c : c # Newline)

\* if file_node_id.ends_with('\n') { file_node_id.pop(); }
PopNewline(string) ==
    IF Len(string) > 0 /\ string[Len(string)] = Newline
    THEN SubSeq(string, 1, Len(string) - 1)
    ELSE string

FindOk(config, node_id) == [config |-> config, kind |-> "Ok", node_id |-> node_id]

\* UserError::InvalidArgument("node_id from file {} does not match node_id
\* from config {}")
FindInvalidArgument(config, file_node_id) ==
    [config |-> config, kind |-> "InvalidArgument", node_id |-> file_node_id]

\* find_node_id(config), in a build without the node-file-block feature and
\* with a file system that does not fail.
find_node_id(config_node_id) ==
    /\ IF node_id_file # None
       THEN LET file_node_id == PopNewline(node_id_file[1]) IN
            /\ find_result' =
                    IF config_node_id # None
                    THEN IF config_node_id[1] # file_node_id
                         THEN FindInvalidArgument(config_node_id, file_node_id)
                         ELSE FindOk(config_node_id, config_node_id[1])
                    ELSE FindOk(config_node_id, file_node_id)
            /\ UNCHANGED node_id_file
       ELSE \E generated \in GeneratedNodeIds :
                LET node_id == UnwrapOr(config_node_id, generated) IN
                /\ node_id_file' = Some(node_id \o <<Newline>>)
                /\ find_result' = FindOk(config_node_id, node_id)
    /\ UNCHANGED <<store, circuit_node, beside>>

\* The state directory is found with a node_id file in it, or without the
\* one it had.
StateDirChanges ==
    /\ node_id_file' \in {None} \cup {Some(content) : content \in SavedFiles}
    /\ node_id_file' # node_id_file
    /\ UNCHANGED <<find_result, store, circuit_node, beside>>

NextNodeId ==
    \/ \E config_node_id \in {None} \cup {Some(id) : id \in ConfigNodeIds} :
            find_node_id(config_node_id)
    \/ StateDirChanges

SpecNodeId == Init /\ [][NextNodeId]_vars

\* ------------------------------------- one call after the other, by backend

\* The id the table gives a new header row, as NewEventId gives it to a
\* connection that is alone.
InsertedId(b, db) ==
    IF b = "sqlite"
    THEN IF db.event = {} THEN 1 ELSE FirstIdDesc(db.event) + 1
    ELSE db.id_seq + 1

\* The event id the implementation of backend b has after the insert:
\* sqlite selects the greatest id of the table, postgres has the insert
\* return the id.
EventIdAfterInsert(b, events, row) ==
    IF b = "sqlite" THEN FirstIdDesc(events \cup {row}) ELSE row.id

\* add_consensus_event of backend b run from its begin to its end on db, no
\* other connection being open: the database it leaves and what it returns.
\* A rolled back insert has moved the sequence of postgres.
AddConsensusEventAlone(b, db, service_id, epoch, event) ==
    LET converted == I64TryFrom(epoch) IN
    IF ~converted.ok
    THEN [db |-> db, result |-> Err("Internal")]
    ELSE
    LET role == Role(ContextExists(db.coordinator_context, service_id,
                                   converted.value),
                     ContextExists(db.participant_context, service_id,
                                   converted.value))
        position == NextPosition(db.event, service_id, converted.value)
        row == EventRow(InsertedId(b, db), service_id, converted.value,
                        position, event)
        event_id == EventIdAfterInsert(b, db.event, row)
        rows == IF role = "coordinator"
                THEN CoordinatorBranch(event_id, service_id, converted.value, event)
                ELSE ParticipantBranch(event_id, service_id, converted.value, event)
        inserted == [db EXCEPT !.id_seq = IF b = "postgres" THEN row.id ELSE @]
    IN
    IF role \in {"both", "none"}
    THEN [db |-> db, result |-> Err("InvalidState")]
    ELSE IF \E r \in db.event : SamePosition(r, row)
    THEN [db |-> inserted, result |-> FromDieselError]
    ELSE [db |->
            [inserted EXCEPT
                !.event = TransactionEnd(@, {row}, rows.ok),
                !.deliver = TransactionEnd(@, rows.deliver, rows.ok),
                !.start = TransactionEnd(@, rows.start, rows.ok),
                !.vote = TransactionEnd(@, rows.vote, rows.ok)],
          result |-> IF rows.ok THEN Ok(event_id) ELSE Err("InvalidState")]

\* The same call is given to the sqlite and to the postgres database, each
\* running it with its own implementation.
CallBoth(service_id, epoch, event) ==
    /\ both.calls < MaxBothCalls
    /\ LET after == [b \in Backends |->
                        AddConsensusEventAlone(b, both.db[b], service_id, epoch,
                                               event)]
       IN  both' = [db |-> [b \in Backends |-> after[b].db],
                    result |-> [b \in Backends |-> after[b].result],
                    calls |-> both.calls + 1]
    /\ UNCHANGED <<cli, keys_result, store, circuit_node, splinterd>>

NextBoth ==
    \E key \in CallKeys, event \in Scabbard2pcEvent :
        CallBoth(key[1], key[2], event)

SpecBoth == Init /\ [][NextBoth]_vars

\* ------------------------------------------------ cli: SubcommandActions

\* with_command(self, command, action)
with_command(command, action) ==
    /\ actions' = HashMapInsert(actions, command, action)
    /\ with_given' = Some([command |-> command, action |-> action])
    /\ UNCHANGED <<run_result, keys_result, both, store, circuit_node, splinterd>>

\* <SubcommandActions as Action>::run(&mut self, arg_matches). ran is the
\* actions whose run was called, each with the arguments it was given.
run(arg_matches) ==
    /\ IF arg_matches = None
       THEN run_result' =
                [arg_matches |-> arg_matches, ran |-> <<>>,
                 result |-> "RequiresArgs"]
       ELSE LET subcommand == Subcommand(arg_matches[1]) IN
            IF actions[subcommand.name] # None
            THEN LET action == actions[subcommand.name][1] IN
                 run_result' =
                    [arg_matches |-> arg_matches,
                     ran |-> <<[action |-> action.action,
                                args |-> subcommand.matches]>>,
                     result |-> action.returns]
            ELSE run_result' =
                    [arg_matches |-> arg_matches, ran |-> <<>>,
                     result |-> "InvalidSubcommand"]
    /\ UNCHANGED <<actions, with_given, keys_result, both, store, circuit_node, splinterd>>

NextCli ==
    \/ \E command \in CommandNames, action \in CliActions :
            with_command(command, action)
    \/ \E arg_matches \in {None} \cup {Some(args) : args \in ArgMatches} :
            run(arg_matches)

SpecCli == Init /\ [][NextCli]_vars

\* --------------------------------------------- splinterd: load_signer_keys

\* load_signer_keys(config_dir, peering_key), with a keys directory that can
\* be read and key files that load; paths is what read_dir yields.
load_signer_keys(paths, peering_key) ==
    /\ keys_result' = LoadSignerKeys(paths, peering_key)
    /\ UNCHANGED <<cli, both, store, circuit_node, splinterd>>

NextSignerKeys ==
    \E paths \in Listings(MaxEntries), peering_key \in {"splinterd", "alice"} :
        load_signer_keys(paths, peering_key)

SpecSignerKeys == Init /\ [][NextSignerKeys]_vars

\* ------------------------------------------------- what the claims speak of

\* The committed header rows of (service_id, epoch).
EventsOf(service_id, epoch) ==
    {row \in two_pc_consensus_event :
        row.service_id = service_id /\ row.epoch = epoch}

PositionsOf(service_id, epoch) ==
    {row.position : row \in EventsOf(service_id, epoch)}

\* The committed header rows of (service_id, epoch) in commit order.
CommitOrder(service_id, epoch) ==
    SelectSeq(commit_log,
              LAMBDA row : row.service_id = service_id /\ row.epoch = epoch)

DetailRows ==
    two_pc_consensus_deliver_event \cup two_pc_consensus_start_event
        \cup two_pc_consensus_vote_event

\* A row of the context table has the service id and the value of the
\* (unsigned) epoch.
HasContext(table, service_id, epoch) ==
    epoch[4] < SignLimb /\ ContextExists(table, service_id, epoch)

HasCoordinator(a) ==
    HasContext(consensus_2pc_coordinator_context, a.service_id, a.epoch)

HasParticipant(a) ==
    HasContext(consensus_2pc_participant_context, a.service_id, a.epoch)

\* Connection t has called, and arg[t] is that call's.
Called(t) == calls[t] > 0

\* Connection t's last call has returned.
Returned(t) == Called(t) /\ pc[t] = "idle"

\* This step is one in which a call of connection t returns.
ReturnsIn(t) ==
    /\ pc'[t] = "idle"
    /\ pc[t] # "idle" \/ calls'[t] # calls[t]

\* C1: for every (service_id, epoch), the committed header rows have the
\* positions 1, 2, ..., n, without gap or duplicate, and the i-th append to
\* commit on the pair holds position i.
C1_PositionsInCommitOrder ==
    \A service_id \in ServiceIds, epoch \in StoredEpochs :
        LET log == CommitOrder(service_id, epoch)
            rows == EventsOf(service_id, epoch)
        IN  /\ \A i \in 1..Len(log) : log[i].position = i
            /\ rows = {log[i] : i \in 1..Len(log)}
            /\ Cardinality(rows) = Len(log)
            /\ PositionsOf(service_id, epoch) = 1..Len(log)

\* Three appends have committed on one pair and one on another.
C1_Witness ==
    /\ Cardinality(EventsOf(ServiceA, Epoch7)) = 3
    /\ Cardinality(EventsOf(ServiceB, Epoch7)) = 1
    /\ oks[1] > 0
    /\ oks[2] > 0

BothDone == \A t \in Threads : pc[t] = "idle" /\ calls[t] = MaxAppends

\* C2 as stated: once both threads have issued their MaxAppends calls on
\* (svc-A, 7), the pair holds 2 * MaxAppends events, at positions
\* 1..2 * MaxAppends.
C2_AllAppendsCommitted ==
    BothDone =>
        /\ Cardinality(EventsOf(ServiceA, Epoch7)) = 2 * MaxAppends
        /\ PositionsOf(ServiceA, Epoch7) = 1..(2 * MaxAppends)

\* C2, amended: under every interleaving the pair holds as many events as
\* calls have returned Ok (2 * MaxAppends at the end when none failed, fewer
\* when one did), at pairwise distinct positions covering exactly 1..n.
C2_OkAppendsCoverPositions ==
    LET rows == EventsOf(ServiceA, Epoch7)
        n == oks[1] + oks[2]
    IN  /\ two_pc_consensus_event = rows
        /\ Cardinality(rows) = n
        /\ PositionsOf(ServiceA, Epoch7) = 1..n
        /\ \A t \in Threads : oks[t] <= calls[t]
        /\ BothDone =>
              (n = 2 * MaxAppends <=> \A t \in Threads : oks[t] = calls[t])

\* Both threads are done and one append was lost to the other thread's.
C2_Witness ==
    /\ BothDone
    /\ oks[1] + oks[2] = 2 * MaxAppends - 1
    /\ oks[1] > 0
    /\ oks[2] > 0

\* C3 as stated: a call on a pair that has neither context returns
\* InvalidState.
C3_NoContextIsInvalidState ==
    \A t \in Threads :
        Returned(t) /\ ~HasCoordinator(arg[t]) /\ ~HasParticipant(arg[t])
            => result[t].kind = "InvalidState"

\* C3, amended: a call on a pair that has neither context fails, whatever
\* the event, and writes no header row and no detail row; the error is
\* InvalidState when the epoch fits an i64 and Internal when it does not.
C3_NoContextFails ==
    /\ \A t \in Threads :
          Called(t) /\ ~HasCoordinator(arg[t]) /\ ~HasParticipant(arg[t]) =>
              /\ writes[t] = NoWrites
              /\ pc[t] \in {"idle", "read"}
              /\ Returned(t) =>
                    result[t] = IF arg[t].epoch[4] < SignLimb
                                THEN Err("InvalidState") ELSE Err("Internal")
    /\ \A row \in two_pc_consensus_event \cup DetailRows :
          \/ ContextExists(consensus_2pc_coordinator_context,
                           row.service_id, row.epoch)
          \/ ContextExists(consensus_2pc_participant_context,
                           row.service_id, row.epoch)

\* A Deliver on (svc-B, 8), which has no context, was refused while the
\* other connection's append was committed.
C3_Witness ==
    \E t \in Threads :
        /\ Returned(t)
        /\ arg[t].service_id = ServiceB
        /\ arg[t].epoch = Epoch8
        /\ arg[t].event.variant = "Deliver"
        /\ result[t].kind = "InvalidState"
        /\ two_pc_consensus_event # {}

BothContexts(a) == HasCoordinator(a) /\ HasParticipant(a)

\* C4: a call on a pair that has both contexts returns InvalidState, whatever
\* the event, and the step in which it returns leaves the four event tables
\* as they were; no row of such a pair is ever written.
C4_BothContextsRejected ==
    /\ [](\A t \in Threads :
            Called(t) /\ BothContexts(arg[t]) =>
                /\ writes[t] = NoWrites
                /\ pc[t] \in {"idle", "read"}
                /\ Returned(t) => result[t] = Err("InvalidState"))
    /\ [](\A row \in two_pc_consensus_event \cup DetailRows :
            ~ /\ ContextExists(consensus_2pc_coordinator_context,
                               row.service_id, row.epoch)
              /\ ContextExists(consensus_2pc_participant_context,
                               row.service_id, row.epoch))
    /\ [][\A t \in Threads :
            ReturnsIn(t) /\ BothContexts(arg'[t]) =>
                /\ result'[t].kind = "InvalidState"
                /\ tables' = tables]_vars

\* A Start on (svc-A, 8), which has both contexts, was refused while the
\* tables held an event.
C4_Witness ==
    \E t \in Threads :
        /\ Returned(t)
        /\ arg[t].service_id = ServiceA
        /\ arg[t].epoch = Epoch8
        /\ arg[t].event.variant = "Start"
        /\ result[t].kind = "InvalidState"
        /\ two_pc_consensus_event # {}

ParticipantOnly(a) == HasParticipant(a) /\ ~HasCoordinator(a)

CoordinatorOnly(a) == HasCoordinator(a) /\ ~HasParticipant(a)

\* The header and detail rows of event type `event_type` that the tables
\* hold for the pair of call a.
RowsOfType(a, event_type) ==
    {row \in two_pc_consensus_event :
        /\ row.service_id = a.service_id
        /\ row.epoch = a.epoch
        /\ row.event_type = event_type}

\* Call a is one C5 speaks of: Start under a participant context alone.
ParticipantStart(a) == ParticipantOnly(a) /\ a.event.variant = "Start"

\* C5 as stated: Start under a participant context alone returns
\* InvalidState, and no START header row and no start row exists for the pair.
C5_ParticipantStartIsInvalidState ==
    \A t \in Threads :
        Returned(t) /\ ParticipantStart(arg[t]) =>
            /\ result[t].kind = "InvalidState"
            /\ RowsOfType(arg[t], "START") = {}

\* C5, amended: Start under a participant context alone fails and writes
\* nothing (no START header row and no start row of the pair is ever
\* committed, and the returning step leaves the tables as they were); the
\* header insert is issued first, and the error is InvalidState when that
\* insert was accepted and the backend's error when it was refused.
C5_ParticipantStartFails ==
    /\ [](\A t \in Threads :
            Called(t) /\ ParticipantStart(arg[t]) =>
                /\ pc[t] # "detail"
                /\ writes[t].start = {}
                /\ RowsOfType(arg[t], "START") = {}
                /\ \A row \in two_pc_consensus_start_event :
                      ~ /\ row.service_id = arg[t].service_id
                        /\ row.epoch = arg[t].epoch
                /\ Returned(t) => result[t].kind \in {"InvalidState", "Internal"})
    /\ [][\A t \in Threads :
            ReturnsIn(t) /\ ParticipantStart(arg'[t]) =>
                /\ tables' = tables
                /\ pc[t] = "header" => result'[t] = Err("InvalidState")
                /\ pc[t] = "read" =>
                      /\ result'[t] = FromDieselError
                      /\ DatabaseLocked(t) \/ \E row \in VisibleEvents(t) :
                            /\ row.service_id = arg[t].service_id
                            /\ row.epoch = loc[t].epoch
                            /\ row.position = loc[t].position]_vars

\* A Start on (svc-B, 7) was refused with InvalidState, its header row gone,
\* while the pair's log holds an event.
C5_Witness ==
    \E t \in Threads :
        /\ Returned(t)
        /\ ParticipantStart(arg[t])
        /\ result[t].kind = "InvalidState"
        /\ EventsOf(ServiceB, Epoch7) # {}

\* Call a is one C6 speaks of: a Commit, Abort or VoteRequest delivered under
\* a coordinator context alone.
CoordinatorIllegalDeliver(a) ==
    /\ CoordinatorOnly(a)
    /\ a.event.variant = "Deliver"
    /\ a.event.message.variant \in {"Commit", "Abort", "VoteRequest"}

DeliverRowsOfType(a, message_type) ==
    {row \in two_pc_consensus_deliver_event :
        /\ row.service_id = a.service_id
        /\ row.epoch = a.epoch
        /\ row.message_type = message_type}

\* C6 as stated: Deliver(_, Commit), Deliver(_, Abort) and
\* Deliver(_, VoteRequest(_)) under a coordinator context alone return
\* InvalidState and no deliver row of that message is added.
C6_CoordinatorDeliverIsInvalidState ==
    \A t \in Threads :
        Returned(t) /\ CoordinatorIllegalDeliver(arg[t]) =>
            /\ result[t].kind = "InvalidState"
            /\ DeliverRowsOfType(arg[t],
                    MessageTypeString(arg[t].event.message)) = {}

\* C6, amended: these calls fail and write nothing (the returning step leaves
\* the tables as they were, header row included, and no COMMIT, ABORT or
\* VOTE_REQUEST deliver row of a coordinator's pair is ever committed); the
\* error is InvalidState when the header insert was accepted and the
\* backend's error when it was refused.
C6_CoordinatorDeliverFails ==
    /\ [](\A t \in Threads :
            Called(t) /\ CoordinatorIllegalDeliver(arg[t]) =>
                /\ pc[t] # "detail"
                /\ writes[t].deliver = {}
                /\ Returned(t) => result[t].kind \in {"InvalidState", "Internal"})
    /\ [](\A row \in two_pc_consensus_deliver_event :
            ContextExists(consensus_2pc_coordinator_context,
                          row.service_id, row.epoch)
                => row.message_type \notin {"COMMIT", "ABORT", "VOTE_REQUEST"})
    /\ [][\A t \in Threads :
            ReturnsIn(t) /\ CoordinatorIllegalDeliver(arg'[t]) =>
                /\ tables' = tables
                /\ pc[t] = "header" => result'[t] = Err("InvalidState")
                /\ pc[t] = "read" => result'[t] = FromDieselError]_vars

\* A VoteRequest delivered on (svc-A, 7) was refused with InvalidState while
\* the pair's log holds an event.
C6_Witness ==
    \E t \in Threads :
        /\ Returned(t)
        /\ CoordinatorIllegalDeliver(arg[t])
        /\ arg[t].event.message.variant = "VoteRequest"
        /\ result[t].kind = "InvalidState"
        /\ EventsOf(ServiceA, Epoch7) # {}

\* Call a is one C7 speaks of: a VoteResponse delivered under a participant
\* context alone.
ParticipantVoteResponse(a) ==
    /\ ParticipantOnly(a)
    /\ a.event.variant = "Deliver"
    /\ a.event.message.variant = "VoteResponse"

\* C7 as stated: Deliver(_, VoteResponse(_)) under a participant context
\* alone returns InvalidState and no deliver row of it remains.
C7_ParticipantVoteResponseIsInvalidState ==
    \A t \in Threads :
        Returned(t) /\ ParticipantVoteResponse(arg[t]) =>
            /\ result[t].kind = "InvalidState"
            /\ DeliverRowsOfType(arg[t], "VOTE_RESPONSE") = {}

\* C7, amended: the call fails and writes nothing (no header row and no
\* deliver row remains: the returning step leaves the tables as they were,
\* and no VOTE_RESPONSE deliver row of a participant's pair is ever
\* committed); the error is InvalidState when the header insert was accepted
\* and the backend's error when it was refused.
C7_ParticipantVoteResponseFails ==
    /\ [](\A t \in Threads :
            Called(t) /\ ParticipantVoteResponse(arg[t]) =>
                /\ pc[t] # "detail"
                /\ writes[t].deliver = {}
                /\ DeliverRowsOfType(arg[t], "VOTE_RESPONSE") = {}
                /\ Returned(t) => result[t].kind \in {"InvalidState", "Internal"})
    /\ [][\A t \in Threads :
            ReturnsIn(t) /\ ParticipantVoteResponse(arg'[t]) =>
                /\ tables' = tables
                /\ pc[t] = "header" => result'[t] = Err("InvalidState")
                /\ pc[t] = "read" => result'[t] = FromDieselError]_vars

\* A VoteResponse(true) delivered on (svc-B, 7) was refused with
\* InvalidState while the pair's log holds an event.
C7_Witness ==
    \E t \in Threads :
        /\ Returned(t)
        /\ ParticipantVoteResponse(arg[t])
        /\ arg[t].event.message.vote
        /\ result[t].kind = "InvalidState"
        /\ EventsOf(ServiceB, Epoch7) # {}

\* The detail rows of header row `row` in a detail table.
DetailsOf(table, row) == {d \in table : d.event_id = row.id}

\* Header row `row` has exactly the detail rows its type asks for in the
\* three given detail tables.
DetailMatchesType(row, deliver, start, vote) ==
    LET d == Cardinality(DetailsOf(deliver, row))
        s == Cardinality(DetailsOf(start, row))
        v == Cardinality(DetailsOf(vote, row))
    IN  CASE row.event_type = "DELIVER" -> d = 1 /\ s = 0 /\ v = 0
          [] row.event_type = "START" -> d = 0 /\ s = 1 /\ v = 0
          [] row.event_type = "VOTE" -> d = 0 /\ s = 0 /\ v = 1
          [] row.event_type = "ALARM" -> d = 0 /\ s = 0 /\ v = 0
          [] OTHER -> FALSE

\* C8: in every committed state each DELIVER, START or VOTE header row has
\* exactly one detail row with its event_id, in the table of its type and in
\* no other, and each ALARM header row has none.
C8_OneDetailRowPerEvent ==
    \A row \in two_pc_consensus_event :
        DetailMatchesType(row, two_pc_consensus_deliver_event,
                          two_pc_consensus_start_event,
                          two_pc_consensus_vote_event)

\* Two events are committed, the second one with a detail row.
C8_Witness ==
    \E r1, r2 \in two_pc_consensus_event :
        /\ r1.id < r2.id
        /\ r1.event_type \in {"ALARM", "START"}
        /\ r2.event_type \in {"DELIVER", "VOTE"}
        /\ DetailsOf(DetailRows, r2) # {}

\* What connection u can read of the rows it has not written itself: the
\* committed rows and what the other connections' open transactions show.
Observed(u) ==
    LET others == {UncommittedVisible(t) : t \in Threads \ {u}} IN
    [event |-> two_pc_consensus_event \cup UNION {w.event : w \in others},
     deliver |-> two_pc_consensus_deliver_event
                    \cup UNION {w.deliver : w \in others},
     start |-> two_pc_consensus_start_event \cup UNION {w.start : w \in others},
     vote |-> two_pc_consensus_vote_event \cup UNION {w.vote : w \in others}]

\* C9: whatever the interleaving, no connection can read a DELIVER, START or
\* VOTE header row of another connection's append without its detail row,
\* nor a detail row without its header row.
C9_HeaderAndDetailVisibleTogether ==
    \A u \in Threads :
        LET seen == Observed(u) IN
        /\ \A row \in seen.event :
              DetailMatchesType(row, seen.deliver, seen.start, seen.vote)
        /\ \A d \in seen.deliver \cup seen.start \cup seen.vote :
              \E row \in seen.event : row.id = d.event_id

\* A connection has inserted the header row of a Deliver and not yet its
\* detail row while the other connection has an open transaction that reads
\* the same pair's log.
C9_Witness ==
    \E t, u \in Threads :
        /\ t # u
        /\ pc[t] = "header"
        /\ arg[t].event.variant = "Deliver"
        /\ writes[t].event # {}
        /\ writes[t].deliver = {}
        /\ pc[u] = "read"
        /\ arg[u].service_id = arg[t].service_id
        /\ arg[u].epoch = arg[t].epoch

\* The pair of call a has exactly one context.
OneContext(a) == HasCoordinator(a) # HasParticipant(a)

\* Call of connection t fails in this step.
FailsIn(t) == ReturnsIn(t) /\ result'[t].kind # "Ok"

\* The position a new append on the pair of connection t's call would read
\* after this step.
NextPositionAfter(t) ==
    NextPosition(two_pc_consensus_event', arg[t].service_id, loc[t].epoch)

\* C10 as stated: a call that fails returns no event_id and leaves no row
\* behind, and the next append on its pair gets the position the failed call
\* had computed.
C10_FailedCallKeepsItsPosition ==
    [][\A t \in Threads :
        FailsIn(t) =>
            /\ tables' = tables
            /\ result'[t].event_id = None
            /\ pc[t] # "idle" /\ OneContext(arg[t]) =>
                  NextPositionAfter(t) = loc[t].position]_vars

\* C10, amended: a call that fails at whatever step returns no event_id,
\* leaves no row behind and consumes no position: the positions of every
\* pair stay 1..n, and the next append on the pair gets the position the
\* failed call had computed, unless an overlapping append has committed a row
\* at that position meanwhile (then it gets the one after the committed rows).
C10_FailedCallConsumesNothing ==
    /\ [][\A t \in Threads :
            FailsIn(t) =>
                /\ tables' = tables
                /\ result'[t].event_id = None
                /\ pc[t] # "idle" /\ OneContext(arg[t]) =>
                      \/ NextPositionAfter(t) = loc[t].position
                      \/ /\ loc[t].position
                                \in PositionsOf(arg[t].service_id, loc[t].epoch)
                         /\ pc[t] = "read"]_vars
    /\ [](\A service_id \in ServiceIds, epoch \in StoredEpochs :
            PositionsOf(service_id, epoch)
                = 1..Cardinality(EventsOf(service_id, epoch)))

\* postgres: a call on (svc-A, 7) failed after its header insert had drawn
\* id 1, and the append that followed holds position 1 with id 2.
C10_Witness ==
    \E t \in Threads :
        /\ Returned(t)
        /\ result[t] = Err("Internal")
        /\ arg[t].service_id = ServiceA
        /\ arg[t].epoch = Epoch7
        /\ \E row \in EventsOf(ServiceA, Epoch7) : row.id = 2 /\ row.position = 1
        /\ Cardinality(two_pc_consensus_event) = 1

\* The (role, event) combinations an append is accepted for: what a
\* coordinator's log and a participant's log may hold.
LegalEvent(role, event) ==
    CASE role = "coordinator" ->
            \/ event.variant \in {"Alarm", "Start", "Vote"}
            \/ /\ event.variant = "Deliver"
               /\ event.message.variant \in {"DecisionRequest", "VoteResponse"}
      [] role = "participant" ->
            \/ event.variant \in {"Alarm", "Vote"}
            \/ /\ event.variant = "Deliver"
               /\ event.message.variant \in
                    {"DecisionRequest", "Commit", "Abort", "VoteRequest"}
      [] OTHER -> FALSE

\* The role the context tables give the pair of call a.
RoleOf(a) == Role(HasCoordinator(a), HasParticipant(a))

\* Connection t's header insert is refused by the backend in this state.
InsertRefused(t) ==
    \/ DatabaseLocked(t)
    \/ \E row \in VisibleEvents(t) :
            /\ row.service_id = arg[t].service_id
            /\ row.epoch = loc[t].epoch
            /\ row.position = loc[t].position

\* C11: a call whose epoch fits an i64 and that meets no backend error
\* returns Ok exactly when its (role, event) combination is legal, and
\* InvalidState for every other combination; the only other outcome is the
\* backend's error of a refused header insert.
C11_OkExactlyForLegalCombinations ==
    /\ [](\A t \in Threads :
            Returned(t) /\ arg[t].epoch[4] < SignLimb =>
                /\ result[t].kind = "Ok" => LegalEvent(RoleOf(arg[t]), arg[t].event)
                /\ result[t].kind = "InvalidState" =>
                      ~LegalEvent(RoleOf(arg[t]), arg[t].event)
                /\ result[t].kind \in {"Ok", "InvalidState", "Internal"})
    /\ [][\A t \in Threads :
            ReturnsIn(t) /\ arg'[t].epoch[4] < SignLimb
                         /\ result'[t].kind \notin {"Ok", "InvalidState"} =>
                /\ result'[t] = FromDieselError
                /\ pc[t] = "read"
                /\ InsertRefused(t)]_vars

\* A coordinator's Deliver of a VoteResponse returned Ok and a participant's
\* Deliver of a VoteResponse returned InvalidState.
C11_Witness ==
    \E t, u \in Threads :
        /\ Returned(t) /\ Returned(u)
        /\ RoleOf(arg[t]) = "coordinator"
        /\ RoleOf(arg[u]) = "participant"
        /\ arg[t].event.variant = "Deliver"
        /\ arg[t].event.message.variant = "VoteResponse"
        /\ arg[u].event = arg[t].event
        /\ result[t].kind = "Ok"
        /\ result[u].kind = "InvalidState"

\* The table of the role opposite to `role`.
OppositeTable(role) ==
    IF role = "coordinator"
    THEN consensus_2pc_participant_context
    ELSE consensus_2pc_coordinator_context

\* C12: no (service_id, epoch) ever has both a coordinator context and a
\* participant context, and a put_context on a pair that has a context of
\* the opposite role does not return Ok.
C12_RoleExclusivity ==
    /\ \A service_id \in ServiceIds, epoch \in StoredEpochs :
          ~ /\ ContextExists(consensus_2pc_coordinator_context, service_id, epoch)
            /\ ContextExists(consensus_2pc_participant_context, service_id, epoch)
    /\ context_result.kind = "Ok" =>
          ~ContextExists(OppositeTable(context_result.role),
                         context_result.service_id, context_result.epoch)

\* The epoch of call a exceeds i64::MAX.
EpochOverflows(a) == a.epoch[4] >= SignLimb

\* The rows connection t's open transaction has written.
WrittenBy(t) ==
    writes[t].event \cup writes[t].deliver \cup writes[t].start \cup writes[t].vote

\* C13: a call whose epoch exceeds i64::MAX returns Internal at once, for
\* every event and every service, and writes nothing; every row written for
\* an epoch of 0..i64::MAX holds that epoch, bit for bit, and no row holds
\* another.
C13_EpochRangeChecked ==
    /\ [](\A t \in Threads :
            /\ Called(t) /\ EpochOverflows(arg[t]) =>
                  /\ pc[t] = "idle"
                  /\ result[t] = Err("Internal")
                  /\ writes[t] = NoWrites
            /\ \A row \in WrittenBy(t) :
                  row.epoch = arg[t].epoch /\ ~EpochOverflows(arg[t]))
    /\ [](\A row \in two_pc_consensus_event \cup DetailRows :
            row.epoch \in BoundaryEpochs /\ row.epoch[4] < SignLimb)
    /\ [][\A t \in Threads :
            ReturnsIn(t) =>
                /\ EpochOverflows(arg'[t]) => tables' = tables
                /\ result'[t].kind = "Ok" =>
                      \E row \in two_pc_consensus_event' \ two_pc_consensus_event :
                          /\ row.epoch = arg[t].epoch
                          /\ row.id = result'[t].event_id[1]]_vars

\* An append at epoch i64::MAX is committed, and a call at epoch 2^63 or at
\* epoch u64::MAX has returned Internal.
C13_Witness ==
    \E t \in Threads :
        /\ Returned(t)
        /\ arg[t].epoch \in {EpochOver, EpochU64Max}
        /\ result[t] = Err("Internal")
        /\ EventsOf(ServiceA, EpochI64Max) # {}

\* The header rows of the open transactions.
InFlightEvents == UNION {writes[t].event : t \in Threads}

\* The ids of the committed header rows increase in commit order.
IdsFollowCommitOrder(log) ==
    \A i, j \in 1..Len(log) : i < j => log[i].id < log[j].id

\* C14 as stated: of any two successful appends, on the same pair or not,
\* the one that commits later has the greater event_id.
C14_IdsIncreaseInCommitOrder == IdsFollowCommitOrder(commit_log)

\* C14, amended: no two header rows share an id, a successful call returns
\* the id of the row it committed, and ids increase in the order the header
\* rows are inserted: a new row's id is greater than the id of every row
\* committed or inserted before.  They increase in commit order within one
\* (service_id, epoch), and across pairs under sqlite, whose writers do not
\* overlap.
C14_IdsUniqueAndIncreasingAtInsert ==
    /\ [](\A r1, r2 \in two_pc_consensus_event \cup InFlightEvents :
            r1.id = r2.id => r1 = r2)
    /\ [](\A service_id \in ServiceIds, epoch \in StoredEpochs :
            IdsFollowCommitOrder(CommitOrder(service_id, epoch)))
    /\ [](backend = "sqlite" => IdsFollowCommitOrder(commit_log))
    /\ [][\A t \in Threads :
            /\ pc[t] = "read" /\ pc'[t] = "header" =>
                  \A inserted \in writes'[t].event :
                      \A old \in two_pc_consensus_event \cup InFlightEvents :
                          old.id < inserted.id
            /\ ReturnsIn(t) /\ result'[t].kind = "Ok" =>
                  /\ Len(commit_log') = Len(commit_log) + 1
                  /\ commit_log'[Len(commit_log')].id = result'[t].event_id[1]
                  /\ writes[t].event = {commit_log'[Len(commit_log')]}]_vars

\* postgres: two appends on different pairs are committed, and the one that
\* committed second holds the id drawn first.
C14_Witness ==
    /\ backend = "postgres"
    /\ Len(commit_log) = 2
    /\ commit_log[1].id = 2
    /\ commit_log[2].id = 1
    /\ commit_log[1].service_id # commit_log[2].service_id
    /\ \E t \in Threads : Returned(t) /\ result[t] = Ok(1)

\* The payloads of an event: its variant, value, vote, receiver, and its
\* message's variant, vote and value.
Payload(event) ==
    <<event.variant, event.value, event.vote, event.receiver,
      event.message.variant, event.message.vote, event.message.value>>

RECURSIVE Payloads(_)
Payloads(events) ==
    IF events = <<>> THEN <<>>
    ELSE <<Payload(Head(events))>> \o Payloads(Tail(events))

\* Connection t's append commits in this step.
CommitsIn(t) == ReturnsIn(t) /\ result'[t].kind = "Ok"

\* C15: the events read back from a (service_id, epoch) in position order
\* are the events appended to it, in the order their appends committed, with
\* the same payloads: a committing append adds its event at the end of what
\* its pair reads back, and no other step changes what a pair reads back
\* (a step that commits nothing and leaves the tables as they are changes
\* nothing that is read).
C15_RoundTrip ==
    [][\/ tables' = tables /\ \A t \in Threads : ~CommitsIn(t)
       \/ \A service_id \in ServiceIds, epoch \in StoredEpochs :
            \E before \in {ListEvents(service_id, epoch, "all")},
               after \in {ListEvents(service_id, epoch, "all")'} :
                IF \E t \in Threads :
                        /\ CommitsIn(t)
                        /\ arg[t].service_id = service_id
                        /\ arg[t].epoch = epoch
                THEN \E t \in Threads :
                        /\ CommitsIn(t)
                        /\ Payloads(after) =
                                Append(Payloads(before), Payload(arg[t].event))
                ELSE Payloads(after) = Payloads(before)]_vars

\* The participant's log of (svc-B, 7) reads back two events, the second a
\* delivered VoteRequest whose first field was not the epoch of the call.
C15_Witness ==
    LET events == ListEvents(ServiceB, Epoch7, "all")
    IN  /\ Len(events) = 2
        /\ events[1].variant \in {"Vote", "Alarm"}
        /\ Payload(events[2]) =
                Payload(Deliver(ServiceA, VoteRequest(<<1, 2>>)))
        /\ \E t \in Threads :
                /\ Returned(t)
                /\ arg[t].event = Deliver(ServiceA, WithFirst(VoteRequest(<<1, 2>>), Epoch8))
                /\ result[t].kind = "Ok"

\* C16: the vote column of every vote row and every non-NULL vote_response
\* column hold "TRUE" or "FALSE" and nothing else: "TRUE" for Vote(true) and
\* for a delivered VoteResponse(_, true), "FALSE" for Vote(false) and for a
\* delivered VoteResponse(_, false), under a coordinator context as under a
\* participant context.
C16_VotesAreUppercaseLiterals ==
    /\ \A d \in two_pc_consensus_vote_event : d.vote \in {"TRUE", "FALSE"}
    /\ \A d \in two_pc_consensus_deliver_event :
          d.vote_response # None => d.vote_response[1] \in {"TRUE", "FALSE"}
    /\ \A t \in Threads :
          /\ \A d \in writes[t].vote :
                /\ arg[t].event.variant = "Vote"
                /\ d.vote = "TRUE" <=> arg[t].event.vote
                /\ d.vote = "FALSE" <=> ~arg[t].event.vote
          /\ \A d \in writes[t].deliver :
                /\ d.vote_response # None <=>
                        arg[t].event.message.variant = "VoteResponse"
                /\ d.vote_response # None =>
                      /\ d.vote_response[1] = "TRUE" <=> arg[t].event.message.vote
                      /\ d.vote_response[1] = "FALSE" <=> ~arg[t].event.message.vote
          /\ pc[t] = "detail" /\ arg[t].event.variant = "Vote" =>
                writes[t].vote # {}
          /\ pc[t] = "detail" /\ arg[t].event.variant = "Deliver" =>
                writes[t].deliver # {}

\* The participant of (svc-B, 7) has committed a Vote(false) and the
\* coordinator of (svc-A, 7) a delivered VoteResponse(_, true).
C16_Witness ==
    /\ \E d \in two_pc_consensus_vote_event :
            d.service_id = ServiceB /\ d.vote = "FALSE"
    /\ \E d \in two_pc_consensus_deliver_event :
            d.service_id = ServiceA /\ d.vote_response = Some("TRUE")

\* The header row with id event_id, as a set.
EventWithId(event_id) == {row \in two_pc_consensus_event : row.id = event_id}

\* C17: mark_executed sets executed_at of an event only when it is NULL, to
\* the timestamp given; a mark_executed on an event that has a timestamp
\* returns InvalidState and changes nothing; no step changes a timestamp
\* once set, nor anything else of a committed header row.
C17_ExecutedAtSetOnce ==
    /\ [][mark_result' # mark_result =>
            \A row \in EventWithId(mark_result'.event_id) :
                IF row.executed_at = None
                THEN /\ mark_result'.kind = "Ok"
                     /\ two_pc_consensus_event' =
                            (two_pc_consensus_event \ {row}) \cup
                                {[row EXCEPT !.executed_at =
                                        Some(mark_result'.timestamp)]}
                ELSE /\ mark_result'.kind = "InvalidState"
                     /\ tables' = tables]_vars
    /\ [][\A row \in two_pc_consensus_event :
            \/ row \in two_pc_consensus_event'
            \/ /\ row.executed_at = None
               /\ \E timestamp \in Timestamps :
                    [row EXCEPT !.executed_at = Some(timestamp)]
                        \in two_pc_consensus_event'
               /\ mark_result'.kind = "Ok"
               /\ mark_result'.event_id = row.id]_vars

\* A second mark_executed on an event, with another timestamp, was refused
\* and the event has kept the first timestamp.
C17_Witness ==
    /\ mark_result.kind = "InvalidState"
    /\ \E row \in EventWithId(mark_result.event_id) :
            /\ row.executed_at # None
            /\ row.executed_at # Some(mark_result.timestamp)

\* The elements of a sequence.
Range(seq) == {seq[i] : i \in 1..Len(seq)}

\* C18: what list_events yields for a pair is in order, epoch ascending and
\* then position ascending, without two events of the same (epoch,
\* position); every filter yields each of its events once, pending-only
\* exactly the events whose executed_at is NULL, executed-only exactly the
\* others, and all exactly the events of the pair.
C18_ListOrderedAndFiltered ==
    \A service_id \in ServiceIds, epoch \in StoredEpochs :
        LET all == ListRows(service_id, epoch, "all")
            pending == ListRows(service_id, epoch, "pending-only")
            executed == ListRows(service_id, epoch, "executed-only")
        IN  /\ \A rows \in {all, pending, executed} :
                  /\ \A i, j \in 1..Len(rows) :
                        i < j =>
                            /\ RowBefore(rows[i], rows[j])
                            /\ <<rows[i].epoch, rows[i].position>>
                                    # <<rows[j].epoch, rows[j].position>>
                  /\ Cardinality(Range(rows)) = Len(rows)
            /\ Range(all) = EventsOf(service_id, epoch)
            /\ Range(pending) =
                    {row \in EventsOf(service_id, epoch) : row.executed_at = None}
            /\ Range(executed) = Range(all) \ Range(pending)
            /\ Len(all) = Len(pending) + Len(executed)

\* The log of (svc-A, 7) holds two events; the second is executed and the
\* first is pending.
C18_Witness ==
    LET all == ListRows(ServiceA, Epoch7, "all")
    IN  /\ Len(all) = 2
        /\ ListRows(ServiceA, Epoch7, "pending-only") = <<all[1]>>
        /\ ListRows(ServiceA, Epoch7, "executed-only") = <<all[2]>>

\* C19: build returns an InvalidStateError when with_node_id was never
\* called on the builder or with_endpoints never was, the one naming node_id
\* when both are missing, and otherwise a CircuitNode whose node_id and
\* endpoints are those last given to with_node_id and with_endpoints.
C19_BuildChecksBothFields ==
    [][node' # node =>
        /\ given.node_id = None =>
              /\ node'.kind = "InvalidStateError"
              /\ node'.message = "unable to build, missing field: node_id"
        /\ given.node_id # None /\ given.endpoints = None =>
              /\ node'.kind = "InvalidStateError"
              /\ node'.message = "unable to build, missing field: endpoints"
        /\ given.node_id # None /\ given.endpoints # None =>
              /\ node'.kind = "Ok"
              /\ node'.id = given.node_id[1]
              /\ node'.endpoints = given.endpoints[1]]_vars

\* with_node_id was called twice and with_endpoints with two endpoints, and
\* the node built has the second node id and both endpoints.
C19_Witness ==
    /\ node.kind = "Ok"
    /\ node.id = "node-2"
    /\ Len(node.endpoints) = 2
    /\ given.node_id = Some("node-2")

\* The text without the newline at its end, if it has one.
WithoutLastNewline(string) ==
    IF string # <<>> /\ string[Len(string)] = "\n"
    THEN [i \in 1..(Len(string) - 1) |-> string[i]]
    ELSE string

\* C20: a find_node_id that finds a node_id file returns InvalidArgument
\* when the config has a node_id that is not the file's content less one
\* newline at its end; it returns the file's node_id when the config has the
\* same node_id or none; in both cases the file is left as it was.
C20_SavedNodeIdMustMatch ==
    [][find_result' # find_result /\ node_id_file # None =>
        LET saved == WithoutLastNewline(node_id_file[1])
            config == find_result'.config
        IN  /\ node_id_file' = node_id_file
            /\ IF config # None /\ config[1] # saved
               THEN find_result'.kind = "InvalidArgument"
               ELSE /\ find_result'.kind = "Ok"
                    /\ find_result'.node_id = saved]_vars

\* The file ends with two newlines and the config has the node id before
\* them: the call was refused, one newline only being removed.
C20_Witness ==
    /\ node_id_file = Some(<<"n1", Newline, Newline>>)
    /\ find_result.config = Some(<<"n1">>)
    /\ find_result.kind = "InvalidArgument"

\* One more than the greatest position of a set of header rows, 1 for none.
PositionAfter(rows) ==
    IF rows = {} THEN 1 ELSE Max({row.position : row \in rows}) + 1

\* C21: the position a call reads, and the position of the header row a
\* successful call commits, is one more than the greatest position among the
\* committed header rows of the call's (service_id, epoch), and 1 when the
\* pair has none; the rows of other services and of other epochs of the same
\* service do not enter it.
C21_PositionIsPairMaxPlusOne ==
    [][\A t \in Threads :
          LET existing == EventsOf(arg'[t].service_id, arg'[t].epoch)
          IN  /\ pc[t] = "idle" /\ pc'[t] = "read" =>
                    loc'[t].position = PositionAfter(existing)
              /\ CommitsIn(t) =>
                    \E row \in two_pc_consensus_event' :
                        /\ row \notin two_pc_consensus_event
                        /\ two_pc_consensus_event' =
                                two_pc_consensus_event \cup {row}
                        /\ row.service_id = arg[t].service_id
                        /\ row.epoch = arg[t].epoch
                        /\ row.position = PositionAfter(existing)]_vars

\* svc-A's logs of epoch 7 and of epoch i64::MAX hold one event each, both at
\* position 1.
C21_Witness ==
    /\ PositionsOf(ServiceA, Epoch7) = {1}
    /\ PositionsOf(ServiceA, EpochI64Max) = {1}
    /\ \A t \in Threads : Returned(t) /\ result[t].kind = "Ok"

\* No two committed header rows share (service_id, epoch, position).
PositionsUnique ==
    \A r1, r2 \in two_pc_consensus_event : SamePosition(r1, r2) => r1 = r2

\* Connection t has read its position and has not inserted yet, and an
\* append that overlapped it has committed a row at that position.
LateCommitter(t) ==
    /\ pc[t] = "read"
    /\ loc[t].position \in PositionsOf(arg[t].service_id, loc[t].epoch)

\* The header row connection t is about to insert.
RowToInsert(t) ==
    EventRow(NewEventId(t), arg[t].service_id, loc[t].epoch, loc[t].position,
             arg[t].event)

ForwardMoves ==
    {<<"idle", "read">>, <<"read", "header">>, <<"header", "detail">>,
     <<"read", "idle">>, <<"header", "idle">>, <<"detail", "idle">>}

\* C23: one call runs its transaction at most once (a connection only moves
\* forward through the statements, a step belongs to at most one call, and
\* at most one header insert draws an id); a call that could have been
\* accepted and fails, which is a call the backend has failed, returns
\* Internal with no event_id and leaves the tables as they were; and the
\* call issued after a call that returned Internal reads one more than the
\* greatest committed position of its pair.
C23_NoInternalRetry ==
    /\ [][\A t \in Threads :
            /\ pc'[t] # pc[t] => <<pc[t], pc'[t]>> \in ForwardMoves
            /\ calls'[t] \in {calls[t], calls[t] + 1}
            /\ calls'[t] # calls[t] => pc[t] = "idle"
            /\ pc[t] # "idle" => arg'[t] = arg[t]]_vars
    /\ [][/\ id_seq' \in {id_seq, id_seq + 1}
          /\ id_seq' # id_seq =>
                \E t \in Threads : pc[t] = "read" /\ pc'[t] \in {"header", "idle"}]_vars
    /\ [][\A t \in Threads :
            FailsIn(t) /\ LegalEvent(RoleOf(arg'[t]), arg'[t].event) =>
                /\ result'[t] = Err("Internal")
                /\ tables' = tables
                /\ contexts' = contexts]_vars
    /\ [][\A t \in Threads :
            pc[t] = "idle" /\ pc'[t] = "read" /\ result[t].kind = "Internal" =>
                loc'[t].position =
                    PositionAfter(EventsOf(arg'[t].service_id, arg'[t].epoch))]_vars

\* sqlite: a Vote on (svc-B, 7) returned Internal, and the same append, run
\* again on the other connection, has committed at position 1.
C23_Witness ==
    \E t \in Threads, u \in Threads :
        /\ backend = "sqlite"
        /\ Returned(t) /\ Returned(u)
        /\ arg[t] = [service_id |-> ServiceB, epoch |-> Epoch7, event |-> Vote(TRUE)]
        /\ arg[u] = arg[t]
        /\ result[t] = Err("Internal")
        /\ result[u].kind = "Ok"
        /\ PositionsOf(ServiceB, Epoch7) = {1}
        /\ two_pc_consensus_vote_event # {}

\* What call a returns when no other call runs beside it.
AloneKind(a) ==
    IF a.epoch[4] >= SignLimb THEN "Internal"
    ELSE IF LegalEvent(RoleOf(a), a.event) THEN "Ok" ELSE "InvalidState"

\* Each pair's committed positions are 1..n.
PositionsContiguous ==
    \A service_id \in ServiceIds, epoch \in StoredEpochs :
        PositionsOf(service_id, epoch)
            = 1..Cardinality(EventsOf(service_id, epoch))

\* C24 as stated: of two connections appending to different pairs, each
\* call returns what it would return alone, and each pair's positions stay
\* 1..n.
C24_DisjointCallsAsAlone ==
    /\ PositionsContiguous
    /\ \A t \in Threads : Returned(t) => result[t].kind = AloneKind(arg[t])

\* C24, amended: each pair's positions stay 1..n and hold the events its own
\* connection appended; under postgres each call returns what it would
\* return alone; under sqlite a call returns that or Internal, and Internal
\* only from a header insert that found the database busy with the other
\* connection's append, in a step that leaves the tables as they were.
C24_DisjointCallsMeetOnlyTheWriteLock ==
    /\ []PositionsContiguous
    /\ [](\A t \in Threads :
            /\ Cardinality(EventsOf(ServiceOf(t), Epoch7)) = oks[t]
            /\ Returned(t) =>
                  \/ result[t].kind = AloneKind(arg[t])
                  \/ backend = "sqlite" /\ result[t] = Err("Internal"))
    /\ [][\A t \in Threads :
            ReturnsIn(t) /\ result'[t].kind # AloneKind(arg'[t]) =>
                /\ pc[t] = "read"
                /\ DatabaseLocked(t)
                /\ \E u \in Threads \ {t} :
                      \/ pc[u] \in {"header", "detail"}
                      \/ oks[u] > 0
                /\ tables' = tables]_vars

\* sqlite: a Vote on (svc-B, 7) returned Internal while the events of
\* (svc-A, 7) were committed, and svc-B's log is empty.
C24_Witness ==
    /\ backend = "sqlite"
    /\ Returned(2)
    /\ arg[2].event = Vote(TRUE)
    /\ result[2] = Err("Internal")
    /\ calls[2] = 1
    /\ oks[1] = MaxAppends
    /\ PositionsOf(ServiceA, Epoch7) = 1..MaxAppends
    /\ EventsOf(ServiceB, Epoch7) = {}

\* The discriminators of the four event variants.
Discriminator(variant) ==
    CASE variant = "Alarm" -> "ALARM"
      [] variant = "Start" -> "START"
      [] variant = "Vote" -> "VOTE"
      [] variant = "Deliver" -> "DELIVER"

\* C25: the step in which a call returns Ok commits exactly one header row:
\* its executed_at is NULL, its position is the one the call computed, its
\* service_id and epoch are the call's, its event_type is the discriminator
\* of the appended variant, and its id is the value returned.
C25_HeaderRowOfSuccessfulAppend ==
    [][\A t \in Threads :
          CommitsIn(t) =>
              \E row \in two_pc_consensus_event' :
                  /\ two_pc_consensus_event' \ two_pc_consensus_event = {row}
                  /\ two_pc_consensus_event \subseteq two_pc_consensus_event'
                  /\ row.executed_at = None
                  /\ row.position = loc[t].position
                  /\ row.service_id = arg[t].service_id
                  /\ row.epoch = arg[t].epoch
                  /\ row.event_type = Discriminator(arg[t].event.variant)
                  /\ result'[t] = Ok(row.id)]_vars

\* A Deliver appended to the coordinator's log of (svc-A, 7) returned the id
\* of a pending DELIVER row at position 2.
C25_Witness ==
    \E t \in Threads, row \in EventsOf(ServiceA, Epoch7) :
        /\ Returned(t)
        /\ arg[t].event.variant = "Deliver"
        /\ result[t] = Ok(row.id)
        /\ row.event_type = "DELIVER"
        /\ row.position = 2
        /\ row.executed_at = None

\* The deliver rows this step commits.
DeliverRowsAdded ==
    two_pc_consensus_deliver_event' \ two_pc_consensus_deliver_event

\* Connection t's call commits, in this step, a Deliver of a message of
\* variant `variant`, its pair having the context of `role` alone.
CommitsDeliver(t, role, variant) ==
    /\ CommitsIn(t)
    /\ RoleOf(arg[t]) = role
    /\ arg[t].event.variant = "Deliver"
    /\ arg[t].event.message.variant = variant

\* C26: under a coordinator context, a committed Deliver(receiver,
\* DecisionRequest) adds one deliver row with message_type DECISION_REQUEST
\* and both vote columns NULL, and a committed Deliver(receiver,
\* VoteResponse(b)) one with message_type VOTE_RESPONSE, vote_response "TRUE"
\* for b = true and "FALSE" for b = false, and vote_request NULL; the row has
\* the call's service_id and epoch, the returned event_id and the given
\* receiver.
C26_CoordinatorDeliverRows ==
    [][\A t \in Threads :
          /\ CommitsDeliver(t, "coordinator", "DecisionRequest") =>
                DeliverRowsAdded =
                    {[event_id |-> result'[t].event_id[1],
                      service_id |-> arg[t].service_id,
                      epoch |-> arg[t].epoch,
                      receiver_service_id |-> arg[t].event.receiver,
                      message_type |-> "DECISION_REQUEST",
                      vote_response |-> None,
                      vote_request |-> None]}
          /\ CommitsDeliver(t, "coordinator", "VoteResponse") =>
                DeliverRowsAdded =
                    {[event_id |-> result'[t].event_id[1],
                      service_id |-> arg[t].service_id,
                      epoch |-> arg[t].epoch,
                      receiver_service_id |-> arg[t].event.receiver,
                      message_type |-> "VOTE_RESPONSE",
                      vote_response |->
                            IF arg[t].event.message.vote
                            THEN Some("TRUE") ELSE Some("FALSE"),
                      vote_request |-> None]}]_vars

\* The coordinator's log of (svc-A, 7) holds a delivered DecisionRequest and
\* a delivered VoteResponse(false), both received by svc-B.
C26_Witness ==
    /\ \E d \in two_pc_consensus_deliver_event :
            /\ d.service_id = ServiceA
            /\ d.receiver_service_id = ServiceB
            /\ d.message_type = "DECISION_REQUEST"
            /\ d.vote_response = None
    /\ \E d \in two_pc_consensus_deliver_event :
            /\ d.service_id = ServiceA
            /\ d.receiver_service_id = ServiceB
            /\ d.message_type = "VOTE_RESPONSE"
            /\ d.vote_response = Some("FALSE")

\* C27: under a participant context, a committed Deliver(receiver, m) adds
\* one deliver row whose message_type is m's discriminator and whose
\* vote_response is NULL; its vote_request is NULL for DecisionRequest,
\* Commit and Abort and the value for VoteRequest(value); the row has the
\* call's service_id and epoch, the returned event_id and the given receiver.
C27_ParticipantDeliverRows ==
    [][\A t \in Threads :
          \A variant \in {"DecisionRequest", "Commit", "Abort", "VoteRequest"} :
              CommitsDeliver(t, "participant", variant) =>
                  DeliverRowsAdded =
                      {[event_id |-> result'[t].event_id[1],
                        service_id |-> arg[t].service_id,
                        epoch |-> arg[t].epoch,
                        receiver_service_id |-> arg[t].event.receiver,
                        message_type |->
                            CASE variant = "DecisionRequest" -> "DECISION_REQUEST"
                              [] variant = "Commit" -> "COMMIT"
                              [] variant = "Abort" -> "ABORT"
                              [] variant = "VoteRequest" -> "VOTE_REQUEST",
                        vote_response |-> None,
                        vote_request |->
                            IF variant = "VoteRequest"
                            THEN arg[t].event.message.value ELSE None]}]_vars

\* The participant's log of (svc-B, 7) holds a delivered VoteRequest with its
\* value, received by svc-A, and a delivered DecisionRequest, received by
\* svc-B itself.
C27_Witness ==
    /\ \E d \in two_pc_consensus_deliver_event :
            /\ d.service_id = ServiceB
            /\ d.receiver_service_id = ServiceA
            /\ d.message_type = "VOTE_REQUEST"
            /\ d.vote_request = Some(<<1, 2>>)
            /\ d.vote_response = None
    /\ \E d \in two_pc_consensus_deliver_event :
            /\ d.service_id = ServiceB
            /\ d.receiver_service_id = ServiceB
            /\ d.message_type = "DECISION_REQUEST"
            /\ d.vote_request = None

\* Every row of the table before the step is in it after the step, and the
\* rows the step adds have none of the old rows' keys.
OnlyAdds(before, after, Key(_)) ==
    /\ before \subseteq after
    /\ \A row \in after \ before : \A old \in before : Key(row) # Key(old)

RowId(row) == row.id

RowEventId(row) == row.event_id

\* C28: every step of add_consensus_event, of a call that succeeds as of one
\* that fails, keeps every header row and every detail row of every service
\* and epoch as it is (rows are only added, under new ids), adds rows only
\* when a call returns Ok, and leaves both context tables as they are.
C28_AppendOnlyAddsRows ==
    [][/\ OnlyAdds(two_pc_consensus_event, two_pc_consensus_event', RowId)
       /\ OnlyAdds(two_pc_consensus_deliver_event,
                   two_pc_consensus_deliver_event', RowEventId)
       /\ OnlyAdds(two_pc_consensus_start_event,
                   two_pc_consensus_start_event', RowEventId)
       /\ OnlyAdds(two_pc_consensus_vote_event,
                   two_pc_consensus_vote_event', RowEventId)
       /\ tables' # tables => \E t \in Threads : CommitsIn(t)
       /\ contexts' = contexts]_vars

\* postgres: the log of (svc-A, 7) holds the Start row with id 1 that one
\* call committed, after the other call, whose header row had drawn id 2, was
\* refused for its message.
C28_Witness ==
    \E t \in Threads, u \in Threads :
        /\ backend = "postgres"
        /\ Returned(t) /\ Returned(u)
        /\ arg[t].event = Start(<<1, 2>>)
        /\ arg[u].service_id = ServiceA /\ arg[u].epoch = Epoch7
        /\ arg[u].event = Deliver(ServiceB, Commit)
        /\ result[t] = Ok(1)
        /\ result[u] = Err("InvalidState")
        /\ id_seq = 2
        /\ Cardinality(two_pc_consensus_event) = 1
        /\ \E d \in two_pc_consensus_start_event : d.event_id = 1

\* The detail rows of connection t's open transaction.
DetailWrites(t) == writes[t].deliver \cup writes[t].start \cup writes[t].vote

\* C29: under sqlite, where the event id is the greatest id of the header
\* table read after the insert, the id a connection holds after its insert
\* is the id of the one header row its call inserted, which no committed row
\* and no row of another connection has; its detail row is written with that
\* id, and the call that returns Ok returns it and commits that header row.
C29_SqliteEventIdIsOwnRow ==
    /\ [](backend = "sqlite" =>
            \A t \in Threads :
                pc[t] \in {"header", "detail"} =>
                    /\ \E row \in writes[t].event :
                          /\ writes[t].event = {row}
                          /\ row.id = loc[t].event_id
                          /\ row.service_id = arg[t].service_id
                          /\ row.epoch = arg[t].epoch
                    /\ \A row \in two_pc_consensus_event : row.id # loc[t].event_id
                    /\ \A u \in Threads \ {t} :
                          \A row \in writes[u].event : row.id # loc[t].event_id
                    /\ \A d \in DetailWrites(t) : d.event_id = loc[t].event_id)
    /\ [][backend = "sqlite" =>
            \A t \in Threads :
                CommitsIn(t) =>
                    /\ result'[t] = Ok(loc[t].event_id)
                    /\ two_pc_consensus_event' \ two_pc_consensus_event
                            = writes[t].event
                    /\ \A d \in DetailRows' \ DetailRows :
                            d.event_id = result'[t].event_id[1]]_vars

\* sqlite: with the event of (svc-A, 7) in the table under id 1, a Vote on
\* (svc-B, 7) returned id 2, the id of its header row and of its vote row.
C29_Witness ==
    \E t \in Threads :
        /\ backend = "sqlite"
        /\ Returned(t)
        /\ arg[t].service_id = ServiceB
        /\ arg[t].event.variant = "Vote"
        /\ result[t] = Ok(2)
        /\ \E row \in EventsOf(ServiceA, Epoch7) : row.id = 1
        /\ \E row \in EventsOf(ServiceB, Epoch7) : row.id = 2 /\ row.position = 1
        /\ \E d \in two_pc_consensus_vote_event :
                d.event_id = 2 /\ d.service_id = ServiceB

\* Detail row d refers to one committed header row, of event type
\* `event_type` and of d's service_id and epoch.
RefersToHeader(d, event_type) ==
    \E row \in two_pc_consensus_event :
        /\ row.id = d.event_id
        /\ \A other \in two_pc_consensus_event :
              other.id = d.event_id => other = row
        /\ row.service_id = d.service_id
        /\ row.epoch = d.epoch
        /\ row.event_type = event_type

\* C30: every committed deliver, start and vote row has the event_id of one
\* committed header row, which is of event type DELIVER, START and VOTE
\* respectively and has the detail row's service_id and epoch.
C30_DetailRowsMatchTheirHeader ==
    /\ \A d \in two_pc_consensus_deliver_event : RefersToHeader(d, "DELIVER")
    /\ \A d \in two_pc_consensus_start_event : RefersToHeader(d, "START")
    /\ \A d \in two_pc_consensus_vote_event : RefersToHeader(d, "VOTE")

\* The tables hold a vote row of the participant's log of (svc-B, 7) and a
\* deliver row of the coordinator's log of (svc-A, 7), under different
\* event ids.
C30_Witness ==
    \E v \in two_pc_consensus_vote_event, d \in two_pc_consensus_deliver_event :
        /\ v.service_id = ServiceB
        /\ d.service_id = ServiceA
        /\ v.epoch = Epoch7
        /\ d.epoch = Epoch7
        /\ v.event_id # d.event_id
        /\ Cardinality(two_pc_consensus_event) = 2

\* C32: in every committed deliver row, vote_response is non-NULL exactly
\* when message_type is VOTE_RESPONSE, vote_request is non-NULL exactly when
\* message_type is VOTE_REQUEST, and the two are never both non-NULL.
C32_DeliverColumnsFollowMessageType ==
    \A d \in two_pc_consensus_deliver_event :
        /\ d.vote_response # None <=> d.message_type = "VOTE_RESPONSE"
        /\ d.vote_request # None <=> d.message_type = "VOTE_REQUEST"
        /\ d.vote_response = None \/ d.vote_request = None

\* The deliver table holds a VOTE_RESPONSE row with its vote and a
\* VOTE_REQUEST row with its value.
C32_Witness ==
    /\ \E d \in two_pc_consensus_deliver_event :
            /\ d.message_type = "VOTE_RESPONSE"
            /\ d.vote_response = Some("TRUE")
            /\ d.vote_request = None
    /\ \E d \in two_pc_consensus_deliver_event :
            /\ d.message_type = "VOTE_REQUEST"
            /\ d.vote_request = Some(<<1, 2>>)
            /\ d.vote_response = None

\* The pair of a row has a context in the table.
RowHasContext(table, row) == ContextExists(table, row.service_id, row.epoch)

\* C33: with the context tables as they were when the events were appended,
\* every START row and every VOTE_RESPONSE deliver row belongs to a pair
\* that has a coordinator context, every COMMIT, ABORT and VOTE_REQUEST
\* deliver row to a pair that has a participant context, and every header
\* and detail row to a pair that has a context.
C33_CommittedEventsLegalForRole ==
    /\ \A row \in two_pc_consensus_event :
            /\ row.event_type = "START" =>
                    RowHasContext(consensus_2pc_coordinator_context, row)
            /\ \/ RowHasContext(consensus_2pc_coordinator_context, row)
               \/ RowHasContext(consensus_2pc_participant_context, row)
    /\ \A d \in two_pc_consensus_start_event :
            RowHasContext(consensus_2pc_coordinator_context, d)
    /\ \A d \in two_pc_consensus_deliver_event :
            /\ d.message_type = "VOTE_RESPONSE" =>
                    RowHasContext(consensus_2pc_coordinator_context, d)
            /\ d.message_type \in {"COMMIT", "ABORT", "VOTE_REQUEST"} =>
                    RowHasContext(consensus_2pc_participant_context, d)
    /\ \A d \in DetailRows :
            \/ RowHasContext(consensus_2pc_coordinator_context, d)
            \/ RowHasContext(consensus_2pc_participant_context, d)

\* The tables hold a START event of the coordinator's pair (svc-A, 7) and a
\* delivered COMMIT of the participant's pair (svc-B, 7).
C33_Witness ==
    /\ \E d \in two_pc_consensus_start_event :
            d.service_id = ServiceA /\ d.epoch = Epoch7
    /\ \E row \in EventsOf(ServiceA, Epoch7) : row.event_type = "START"
    /\ \E d \in two_pc_consensus_deliver_event :
            /\ d.service_id = ServiceB
            /\ d.epoch = Epoch7
            /\ d.message_type = "COMMIT"

\* C34: the checks of add_consensus_event come in this order.  A call whose
\* epoch does not fit an i64 returns Internal before anything is read,
\* whatever the event.  Otherwise a call on a pair with both contexts, and
\* then a call on a pair with no context, returns InvalidState at the context
\* check, before the header insert and whatever the event (legal in a role or
\* in none).  Only a call on a pair with exactly one context inserts the
\* header row and has its event and message examined: its InvalidState comes
\* after the header insert, and for an event illegal in its role.
C34_ErrorPrecedence ==
    /\ [](\A t \in Threads :
            pc[t] \in {"header", "detail"} =>
                /\ ~EpochOverflows(arg[t])
                /\ OneContext(arg[t]))
    /\ [][\A t \in Threads :
            ReturnsIn(t) =>
                LET a == arg'[t] IN
                CASE EpochOverflows(a) ->
                        /\ result'[t] = Err("Internal")
                        /\ pc[t] = "idle"
                  [] ~EpochOverflows(a) /\ ~OneContext(a) ->
                        /\ result'[t] = Err("InvalidState")
                        /\ pc[t] = "read"
                        /\ id_seq' = id_seq
                  [] OTHER ->
                        /\ result'[t].kind = "InvalidState" =>
                                /\ pc[t] = "header"
                                /\ ~LegalEvent(RoleOf(a), a.event)
                        /\ result'[t].kind = "Ok" =>
                                /\ pc[t] = "detail"
                                /\ LegalEvent(RoleOf(a), a.event)
                        /\ result'[t].kind = "Internal" =>
                                pc[t] = "read" /\ InsertRefused(t)]_vars

\* A Start on (svc-A, 2^63) returned Internal, and a Deliver of a
\* VoteResponse, which a coordinator's log accepts, returned InvalidState on
\* (svc-A, 8), which has both contexts.
C34_Witness ==
    \E t \in Threads, u \in Threads :
        /\ Returned(t) /\ Returned(u)
        /\ arg[t] = [service_id |-> ServiceA, epoch |-> EpochOver,
                     event |-> Start(<<1, 2>>)]
        /\ result[t] = Err("Internal")
        /\ arg[u] = [service_id |-> ServiceA, epoch |-> Epoch8,
                     event |-> Deliver(ServiceB, VoteResponse(TRUE))]
        /\ result[u] = Err("InvalidState")
        /\ two_pc_consensus_event = {}

\* The node_id file holds the node_id the last call returned, followed by a
\* newline: the file as the call that created it has left it.
FileHoldsReturnedNodeId ==
    /\ find_result.kind = "Ok"
    /\ node_id_file = Some(find_result.node_id \o <<"\n">>)

\* A call with config_node_id returns node_id and leaves the file as it is,
\* and can do nothing else.
ReturnsSameNodeId(config_node_id, node_id) ==
    /\ ENABLED find_node_id(config_node_id)
    /\ ~ ENABLED (/\ find_node_id(config_node_id)
                  /\ ~ (/\ find_result'.kind = "Ok"
                        /\ find_result'.node_id = node_id
                        /\ node_id_file' = node_id_file))

\* C37: a call that finds no node_id file returns the config's node_id, or a
\* generated one when the config has none, and creates the file holding the
\* returned node_id followed by a newline; and whenever the file holds the
\* returned node_id followed by a newline, a call whose config has that
\* node_id or none returns the same node_id and leaves the file as it is.
C37_NodeIdStableAcrossCalls ==
    /\ [][node_id_file = None /\ find_result' # find_result =>
            /\ find_result'.kind = "Ok"
            /\ node_id_file' = Some(find_result'.node_id \o <<"\n">>)
            /\ IF find_result'.config # None
               THEN find_result'.node_id = find_result'.config[1]
               ELSE find_result'.node_id \in GeneratedNodeIds]_vars
    /\ [](FileHoldsReturnedNodeId =>
            /\ ReturnsSameNodeId(None, find_result.node_id)
            /\ ReturnsSameNodeId(Some(find_result.node_id), find_result.node_id))

\* The file created for the config's node_id n2 is there, and a later call
\* whose config has no node_id has returned n2.
C37_Witness ==
    /\ node_id_file = Some(<<"n2", "\n">>)
    /\ find_result.config = None
    /\ find_result.kind = "Ok"
    /\ find_result.node_id = <<"n2">>

\* C35 as stated: every committed position lies in 1..2^31 - 1, also after
\* appends to a pair whose greatest position is 2^31 - 1.
C35_PositionsStayInRange ==
    \A row \in two_pc_consensus_event :
        row.position >= 1 /\ row.position <= I32Max

\* C38: SubcommandActions::run returns RequiresArgs when it is given no
\* arguments, and InvalidSubcommand, running no action, when no action is
\* registered under the subcommand's name; otherwise it runs the action
\* registered under that name, that one only and once, and returns what the
\* action returned. with_command leaves one action under the name, the one
\* it was given, also when another was registered under it, and leaves the
\* other names as they were.
C38_RunDispatchesToRegisteredAction ==
    /\ [][run_result' # run_result =>
            LET arg_matches == run_result'.arg_matches IN
            /\ actions' = actions
            /\ IF arg_matches = None
               THEN /\ run_result'.result = "RequiresArgs"
                    /\ run_result'.ran = <<>>
               ELSE LET name ==
                            IF arg_matches[1].subcommand = None
                            THEN ""
                            ELSE arg_matches[1].subcommand[1].name
                    IN
                    IF actions[name] = None
                    THEN /\ run_result'.result = "InvalidSubcommand"
                         /\ run_result'.ran = <<>>
                    ELSE /\ Len(run_result'.ran) = 1
                         /\ run_result'.ran[1].action = actions[name][1].action
                         /\ run_result'.result = actions[name][1].returns]_vars
    /\ [][with_given' # with_given \/ actions' # actions =>
            /\ with_given' # None
            /\ actions'[with_given'[1].command] = Some(with_given'[1].action)
            /\ \A other \in CommandNames \ {with_given'[1].command} :
                    actions'[other] = actions[other]]_vars

\* run has run the first action for "list" and returned its Ok, and a later
\* with_command has put the second action in its place.
C38_Witness ==
    /\ run_result.arg_matches # None
    /\ run_result.arg_matches[1].subcommand # None
    /\ run_result.arg_matches[1].subcommand[1].name = "list"
    /\ run_result.ran = <<[action |-> "first", args |-> Some("matches-1")]>>
    /\ run_result.result = "Ok"
    /\ with_given = Some([command |-> "list",
                          action |-> [action |-> "second", returns |-> "ActionError"]])
    /\ actions["list"] = Some([action |-> "second", returns |-> "ActionError"])

\* The stems of the .priv files among the entries.
PrivStems(paths) ==
    {paths[i].stem : i \in {j \in 1..Len(paths) : paths[j].extension = "priv"}}

SignersOf(signing_keys) == {signing_keys[i] : i \in 1..Len(signing_keys)}

\* What the last load_signer_keys returned, by the .priv files it found.
SignerKeysByPrivFiles ==
    keys_result.kind # "None" =>
        LET priv == PrivStems(keys_result.paths)
            peering == [signer |-> keys_result.peering_key]
        IN
        /\ keys_result.kind \in {"Ok", "InternalError"}
        /\ priv = {} => keys_result.kind = "InternalError"
        /\ keys_result.peering_key \in priv =>
                /\ keys_result.kind = "Ok"
                /\ keys_result.signing_keys[1] = peering
                /\ keys_result.token = Some([public_key |-> peering.signer])
        /\ keys_result.peering_key \notin priv /\ Cardinality(priv) = 1 =>
                /\ keys_result.kind = "Ok"
                /\ \E stem \in priv :
                        /\ keys_result.signing_keys = <<[signer |-> stem]>>
                        /\ keys_result.token = Some([public_key |-> stem])
        /\ keys_result.peering_key \notin priv /\ Cardinality(priv) > 1 =>
                keys_result.kind = "InternalError"
        /\ keys_result.kind = "Ok" =>
                SignersOf(keys_result.signing_keys) =
                    {[signer |-> stem] : stem \in priv}

\* Two calls were given the same peering key and read the same entries,
\* in whatever order each.
SameEntriesRead(one, other) ==
    /\ one.kind # "None"
    /\ other.kind # "None"
    /\ one.peering_key = other.peering_key
    /\ Len(one.paths) = Len(other.paths)
    /\ {one.paths[i] : i \in 1..Len(one.paths)} =
            {other.paths[i] : i \in 1..Len(other.paths)}

\* C36 as stated: the outcome of load_signer_keys, the returned list and
\* token or the failure, is what the .priv files and the peering key make it
\* and does not depend on the order in which the entries are read.
C36_OutcomeIndependentOfReadOrder ==
    /\ []SignerKeysByPrivFiles
    /\ [][SameEntriesRead(keys_result, keys_result') =>
            /\ keys_result'.kind = keys_result.kind
            /\ keys_result'.token = keys_result.token
            /\ keys_result'.signing_keys = keys_result.signing_keys]_vars

\* C36: on success the signer of the .priv file whose stem is the peering
\* key is at index 0 of the returned list and the token is derived from it;
\* with no .priv file the call fails; when no .priv file has the peering
\* key's stem the call returns the only signer and its token if there is
\* exactly one .priv file, and fails if there are more. Success or failure,
\* the token, the signer at index 0 and the set of the returned signers do
\* not depend on the order in which the entries are read; the signers after
\* index 0 are in the order their files were read.
C36_PeeringSignerFirstInAnyReadOrder ==
    /\ []SignerKeysByPrivFiles
    /\ [](keys_result.kind = "Ok" =>
            \A i, j \in 2..Len(keys_result.signing_keys) :
                i < j =>
                    \E m, n \in 1..Len(keys_result.paths) :
                        /\ m < n
                        /\ keys_result.paths[m] =
                                [stem |-> keys_result.signing_keys[i].signer,
                                 extension |-> "priv"]
                        /\ keys_result.paths[n] =
                                [stem |-> keys_result.signing_keys[j].signer,
                                 extension |-> "priv"])
    /\ [][SameEntriesRead(keys_result, keys_result') =>
            /\ keys_result'.kind = keys_result.kind
            /\ keys_result'.token = keys_result.token
            /\ SignersOf(keys_result'.signing_keys) =
                    SignersOf(keys_result.signing_keys)
            /\ keys_result.kind = "Ok" =>
                    keys_result'.signing_keys[1] = keys_result.signing_keys[1]]_vars

\* The peering key's file was read after bob's and before alice's, and its
\* signer is returned first, before bob's and alice's.
C36_Witness ==
    /\ keys_result.peering_key = "splinterd"
    /\ keys_result.paths =
            <<[stem |-> "bob", extension |-> "priv"],
              [stem |-> "splinterd", extension |-> "priv"],
              [stem |-> "alice", extension |-> "priv"]>>
    /\ keys_result.kind = "Ok"
    /\ keys_result.signing_keys =
            <<[signer |-> "splinterd"], [signer |-> "bob"], [signer |-> "alice"]>>
    /\ keys_result.token = Some([public_key |-> "splinterd"])

\* A header row and the detail rows that refer to it, without the ids.
WithoutIds(db) ==
    {[header |-> [row EXCEPT !.id = 0],
      deliver |-> {[d EXCEPT !.event_id = 0] :
                        d \in {x \in db.deliver : x.event_id = row.id}},
      start |-> {[d EXCEPT !.event_id = 0] :
                        d \in {x \in db.start : x.event_id = row.id}},
      vote |-> {[d EXCEPT !.event_id = 0] :
                        d \in {x \in db.vote : x.event_id = row.id}}] :
        row \in db.event}

\* The ids of the two header tables are in the same order: rows at the same
\* position of the same pair are the same row.
SameIdOrder(one, other) ==
    \A r1, r2 \in one.event, q1, q2 \in other.event :
        SamePosition(r1, q1) /\ SamePosition(r2, q2) /\ r1.id < r2.id
            => q1.id < q2.id

\* No id of the postgres sequence was lost to an insert that was rolled
\* back: postgres has numbered the header rows as sqlite does.
IdsAssignedAlike == both.db["postgres"].id_seq = Cardinality(both.db["postgres"].event)

====
